---- MODULE Spec2Model ----
(***************************************************************************)
(* A model of gdb-natvis: the template type parser and matcher             *)
(* (src/templates.py), the natvis rule model with its rule manager         *)
(* (src/natvis.py), the expression evaluator (src/parser.py), the         *)
(* printer that shows a value by a rule (src/printer.py) and the type      *)
(* graph that declares a value's type for the evaluator (src/utils.py,     *)
(* src/type_mapping.py).                                                   *)
(*                                                                         *)
(* Python strings are sequences of one-character strings.  Python          *)
(* positions are 0-based and are kept 0-based here: input[i] of the code   *)
(* is CharAt(input, i).                                                    *)
(***************************************************************************)
EXTENDS Integers, Sequences, FiniteSets, TLC

VARIABLES
    tt_input,     \* the argument of parse_template_type
    tt_result,    \* what parse_template_type did: a value or an exception
    tt_str,       \* str() of the parsed TemplateType
    m_self,       \* the pattern TemplateType matches() is called on
    m_other,      \* the instance TemplateType
    m_args,       \* the matched_args argument (None or a list)
    m_result,     \* what matches() returned, and matched_args afterwards
    ds_segments,  \* the pieces the display string was written from
    ds_parser,    \* the DisplayStringParser constructed from them
    nv_document,  \* the root element of a rule document: its children
    nv_result,    \* what NatvisDocument(document) did
    loaded_types, \* NatvisManager.loaded_types
    loaded_files, \* NatvisManager.loaded_files
    scans,        \* how many times _load_natvis_files has run
    calls,        \* how many manager calls have been made
    prev_call,    \* the manager call before the last one
    last_call,    \* the last manager call: arguments, outcome, state before
    rv_expression,    \* the pieces the expression of replace_vars was written from
    rv_template_args, \* NatvisTypeInstance.template_args
    rv_kwargs,        \* the keyword arguments of replace_vars
    rv_result,        \* what replace_vars did
    ex_children,  \* the children of an Expand element
    ex_result,    \* what NatvisType did with a Type holding that Expand
    pr_parsers,   \* the display_parsers of the type a NatvisPrinter shows
    pr_evaluator, \* what the expression evaluator does with each expression
    pr_result,    \* what NatvisPrinter.to_string did
    it_item,      \* the Expand directive a NatvisPrinter lists the children of
    it_evaluator, \* what the expression evaluator does with each expression
    it_result,    \* what listing the children of the directive did
    ev_cursor,    \* the expression tree ClangExpressionEvaluator.get_value walks
    ev_result,    \* what get_value did
    tg_program,   \* the struct types of the debugged program and their fields
    tg_type,      \* the type get_type_string is called with
    tg_result,    \* what get_type_string did
    fs_spec,      \* the argument of parse_format_specifier
    fs_result,    \* what parse_format_specifier returned
    dr_string,    \* the argument of DisplayStringParser
    dr_parser,    \* the DisplayStringParser constructed from it
    pc            \* which operations have run

templateVars == <<tt_input, tt_result, tt_str>>

matchVars == <<m_self, m_other, m_args, m_result>>

displayVars == <<ds_segments, ds_parser>>

documentVars == <<nv_document, nv_result>>

managerVars == <<loaded_types, loaded_files, scans, calls, prev_call, last_call>>

replaceVars == <<rv_expression, rv_template_args, rv_kwargs, rv_result>>

expandVars == <<ex_children, ex_result>>

printerVars == <<pr_parsers, pr_evaluator, pr_result>>

itemsVars == <<it_item, it_evaluator, it_result>>

evaluatorVars == <<ev_cursor, ev_result>>

graphVars == <<tg_program, tg_type, tg_result>>

formatVars == <<fs_spec, fs_result>>

stringVars == <<dr_string, dr_parser>>

laterVars == <<itemsVars, evaluatorVars, graphVars, formatVars, stringVars>>

vars == <<templateVars, matchVars, displayVars, documentVars, managerVars,
          replaceVars, expandVars, printerVars, laterVars, pc>>

(***************************************************************************)
(* Bounds                                                                  *)
(***************************************************************************)
MaxLen == 6        \* longest type string parsed
MaxNodes == 3      \* most nodes of a pattern or instance TemplateType
MaxSegments == 3   \* most pieces of a display string
MaxChildren == 3   \* most children of a document root

(***************************************************************************)
(* Python string primitives                                                *)
(***************************************************************************)
Whitespace == {" "}

isspace(c) == c \in Whitespace

CharAt(s, i) == s[i + 1]

\* s[a:b] for 0 <= a, clamped like a Python slice
Slice(s, a, b) ==
    LET e == IF b > Len(s) THEN Len(s) ELSE b
    IN  IF a >= e THEN <<>> ELSE SubSeq(s, a + 1, e)

RECURSIVE rstrip(_)
rstrip(s) ==
    IF s # <<>> /\ isspace(s[Len(s)]) THEN rstrip(SubSeq(s, 1, Len(s) - 1)) ELSE s

RECURSIVE lstrip(_)
lstrip(s) ==
    IF s # <<>> /\ isspace(s[1]) THEN lstrip(Tail(s)) ELSE s

strip(s) == lstrip(rstrip(s))

RECURSIVE Concat(_)
Concat(ss) == IF ss = <<>> THEN <<>> ELSE Head(ss) \o Concat(Tail(ss))

\* sep.join(ss)
RECURSIVE join(_, _)
join(sep, ss) ==
    IF ss = <<>> THEN <<>>
    ELSE IF Len(ss) = 1 THEN ss[1]
    ELSE ss[1] \o sep \o join(sep, Tail(ss))

\* str(n) for a natural number
RECURSIVE IntToStr(_)
IntToStr(n) ==
    LET digit == <<"0", "1", "2", "3", "4", "5", "6", "7", "8", "9">>[(n % 10) + 1]
    IN  IF n < 0 THEN <<"-">> \o IntToStr(-n)
        ELSE IF n < 10 THEN <<digit>> ELSE IntToStr(n \div 10) \o <<digit>>

\* all sequences over S of length at most n
RECURSIVE SeqsUpTo(_, _)
SeqsUpTo(S, n) ==
    IF n = 0 THEN {<<>>}
    ELSE LET shorter == SeqsUpTo(S, n - 1)
         IN  shorter \cup {Append(s, c) : s \in {t \in shorter : Len(t) = n - 1}, c \in S}

(***************************************************************************)
(* templates.py                                                            *)
(***************************************************************************)
TemplateType(name, args) == [name |-> name, args |-> args]

is_wildcard(self) == self.name = <<"*">>

NoType == TemplateType(<<>>, <<>>)

\* TemplateType.__str__
RECURSIVE str(_)
str(self) ==
    IF Len(self.args) <= 0 THEN self.name
    ELSE self.name \o <<"<">>
         \o join(<<",", " ">>, [i \in 1..Len(self.args) |-> str(self.args[i])])
         \o <<">">>

\* Optional values: None, or a value that is not None
None == [is_none |-> TRUE, value |-> <<>>]

Some(value) == [is_none |-> FALSE, value |-> value]

\* TemplateType.matches: the value returned and matched_args after the call.
\* MatchArgs is the zip loop from pair i on.
RECURSIVE matches(_, _, _), MatchArgs(_, _, _, _)
\* matches without the comparison of the argument counts
matches_NoLengthCheck(self, other, matched_args) ==
    IF is_wildcard(self)
    THEN [ret |-> TRUE,
          matched_args |-> IF ~matched_args.is_none
                           THEN Some(Append(matched_args.value, other.name))
                           ELSE matched_args]
    ELSE LET loop == MatchArgs(self, other, 1, matched_args)
         IN  IF ~loop.ret THEN loop
             ELSE [ret |-> self.name = other.name, matched_args |-> loop.matched_args]

matches(self, other, matched_args) ==
    IF is_wildcard(self)
    THEN [ret |-> TRUE,
          matched_args |-> IF ~matched_args.is_none
                           THEN Some(Append(matched_args.value, other.name))
                           ELSE matched_args]
    ELSE IF Len(self.args) # Len(other.args)
    THEN [ret |-> FALSE, matched_args |-> matched_args]
    ELSE LET loop == MatchArgs(self, other, 1, matched_args)
         IN  IF ~loop.ret THEN loop
             ELSE [ret |-> self.name = other.name, matched_args |-> loop.matched_args]

MatchArgs(self, other, i, matched_args) ==
    IF i > Len(self.args) \/ i > Len(other.args)
    THEN [ret |-> TRUE, matched_args |-> matched_args]
    ELSE LET r == matches(self.args[i], other.args[i], matched_args)
         IN  IF ~r.ret THEN r
             ELSE MatchArgs(self, other, i + 1, r.matched_args)

TEMPLATE_LIST_REGEX == {"<", ">", ","}

\* TEMPLATE_LIST_REGEX.search(input, start): the position of the match, -1 for None
RECURSIVE search(_, _)
search(input, start) ==
    IF start >= Len(input) THEN -1
    ELSE IF CharAt(input, start) \in TEMPLATE_LIST_REGEX THEN start
    ELSE search(input, start + 1)

\* skip_whitespace that skips nothing
skip_whitespace_NoSkip(input, start) == start

RECURSIVE skip_whitespace(_, _)
skip_whitespace(input, start) ==
    IF start < Len(input) /\ isspace(CharAt(input, start))
    THEN skip_whitespace(input, start + 1)
    ELSE start

\* What a call did: returned (type, end), or raised
Returned(type, end) == [kind |-> "ok", type |-> type, end |-> end, pos |-> 0]
Raised(exception, pos) == [kind |-> exception, type |-> NoType, end |-> 0, pos |-> pos]

\* _template_type_parse_runner; ParseArgs is its while loop, entered with
\* the current arg_start and args
RECURSIVE template_type_parse_runner(_, _), ParseArgs(_, _, _, _, _)
template_type_parse_runner(input, start) ==
    LET name_end == search(input, start)
    IN  IF name_end = -1
        THEN Returned(TemplateType(rstrip(Slice(input, start, Len(input))), <<>>), Len(input))
        ELSE IF CharAt(input, name_end) \in {">", ","}
        THEN Returned(TemplateType(rstrip(Slice(input, start, name_end)), <<>>), name_end)
        ELSE ParseArgs(input, start, name_end, skip_whitespace(input, name_end + 1), <<>>)

ParseArgs(input, start, name_end, arg_start, args) ==
    IF arg_start < Len(input) /\ CharAt(input, arg_start) # ">"
    THEN LET arg == template_type_parse_runner(input, arg_start)
         IN  IF arg.kind # "ok" THEN arg
             ELSE LET args1 == Append(args, arg.type)
                      arg_start1 == skip_whitespace(input, arg.end)
                  IN  IF arg_start1 >= Len(input)
                      THEN Raised("IndexError", arg_start1)      \* input[arg_start], line 90
                      ELSE IF CharAt(input, arg_start1) = ","
                      THEN LET arg_start2 == skip_whitespace(input, arg_start1 + 1)
                           IN  IF arg_start2 >= Len(input)
                               THEN Raised("IndexError", arg_start2)   \* line 94
                               ELSE IF CharAt(input, arg_start2) \in {"<", ">", ","}
                               THEN Raised("TemplateException", arg_start2 + 1)
                               ELSE ParseArgs(input, start, name_end, arg_start2, args1)
                      ELSE ParseArgs(input, start, name_end, arg_start1, args1)
    ELSE IF Len(args) <= 0
    THEN Raised("TemplateException", arg_start + 1)
    ELSE IF arg_start >= Len(input) \/ CharAt(input, arg_start) # ">"
    THEN Raised("TemplateException", arg_start + 1)
    ELSE Returned(TemplateType(Slice(input, start, name_end), args), arg_start + 1)

\* parse_template_type without the check for remaining input
parse_template_type_NoRemainingCheck(input) == template_type_parse_runner(input, 0)

parse_template_type(input) ==
    LET r == template_type_parse_runner(input, 0)
    IN  IF r.kind # "ok" THEN r
        ELSE IF r.end < Len(input) THEN Raised("TemplateException", r.end + 1)
        ELSE r

(***************************************************************************)
(* natvis.py: format specifiers and display strings                        *)
(***************************************************************************)
\* class FormatSpecifiers, in definition order: a member and its aliases
FormatSpecifiers == <<
    [name |-> "DECIMAL_INT",            value |-> << <<"d">> >>],
    [name |-> "OCTAL_INT",              value |-> << <<"o">> >>],
    [name |-> "HEX_INT",                value |-> << <<"x">>, <<"h">>, <<"h", "r">>,
                                                     <<"w", "c">>, <<"w", "m">> >>],
    [name |-> "HEX_INT_UPPER",          value |-> << <<"X">>, <<"H">> >>],
    [name |-> "CHARACTER",              value |-> << <<"c">> >>],
    [name |-> "STRING",                 value |-> << <<"s">>, <<"s", "a">> >>],
    [name |-> "STRING_NO_QUOTES",       value |-> << <<"s", "b">>, <<"s", "8", "b">> >>],
    [name |-> "WIDE_STRING",            value |-> << <<"s", "u">>, <<"b", "s", "t", "r">> >>],
    [name |-> "WIDE_STRING_NO_QUOTES",  value |-> << <<"s", "u", "b">> >>],
    [name |-> "UTF32_STRING",           value |-> << <<"s", "3", "2">> >>],
    [name |-> "UTF32_STRING_NO_QUOTES", value |-> << <<"s", "3", "2", "b">> >>],
    [name |-> "ENUM",                   value |-> << <<"e", "n">> >>],
    [name |-> "HEAP_VARIABLE",          value |-> << <<"h", "v">> >>],
    [name |-> "NO_ADDRESS",             value |-> << <<"n", "a">> >>],
    [name |-> "NO_DERIVED",             value |-> << <<"n", "d">> >>] >>

\* The same loops when the first alias that matches is kept
RECURSIVE FindMatch_FirstMatch(_, _, _, _, _, _)
FindMatch_FirstMatch(spec, pos, f, n, current_match, current_length) ==
    IF f > Len(FormatSpecifiers) THEN [match |-> current_match, length |-> current_length]
    ELSE IF n > Len(FormatSpecifiers[f].value)
    THEN FindMatch_FirstMatch(spec, pos, f + 1, 1, current_match, current_length)
    ELSE LET name == FormatSpecifiers[f].value[n]
             substr == Slice(spec, pos, pos + Len(name))
         IN  IF substr = name /\ current_match.is_none
             THEN FindMatch_FirstMatch(spec, pos, f, n + 1, Some(FormatSpecifiers[f].name),
                                       Len(substr))
             ELSE FindMatch_FirstMatch(spec, pos, f, n + 1, current_match, current_length)

\* The two nested for loops of parse_format_specifier at position pos, from
\* alias n of member f on: the (current_match, current_length) they end with
RECURSIVE FindMatch(_, _, _, _, _, _)
FindMatch(spec, pos, f, n, current_match, current_length) ==
    IF f > Len(FormatSpecifiers) THEN [match |-> current_match, length |-> current_length]
    ELSE IF n > Len(FormatSpecifiers[f].value)
    THEN FindMatch(spec, pos, f + 1, 1, current_match, current_length)
    ELSE LET name == FormatSpecifiers[f].value[n]
             substr == Slice(spec, pos, pos + Len(name))
         IN  IF substr = name /\ (current_match.is_none \/ Len(substr) > current_length)
             THEN FindMatch(spec, pos, f, n + 1, Some(FormatSpecifiers[f].name), Len(substr))
             ELSE FindMatch(spec, pos, f, n + 1, current_match, current_length)

\* list(parse_format_specifier(spec)), from position pos on
RECURSIVE parse_format_specifier_from(_, _)
parse_format_specifier_from(spec, pos) ==
    IF pos >= Len(spec) THEN <<>>
    ELSE LET found == FindMatch(spec, pos, 1, 1, None, 0)
         IN  IF found.match.is_none
             THEN parse_format_specifier_from(spec, pos + 1)
             ELSE <<found.match.value>> \o parse_format_specifier_from(spec, pos + found.length)

parse_format_specifier(spec) == parse_format_specifier_from(spec, 0)

\* s.rfind(c): the 0-based position of the last c in s, -1 if there is none
RECURSIVE rfind(_, _)
rfind(s, c) ==
    IF s = <<>> THEN -1
    ELSE IF s[Len(s)] = c THEN Len(s) - 1
    ELSE rfind(SubSeq(s, 1, Len(s) - 1), c)

\* expression.rsplit(",", 1)
rsplit(expression) ==
    LET comma == rfind(expression, ",")
    IN  IF comma = -1 THEN <<expression>>
        ELSE <<Slice(expression, 0, comma), Slice(expression, comma + 1, Len(expression))>>

\* ARRAY_LENGTH_REGEX.match(format): groups 1 and 2 of ^(?:\[(.*)\])?(.*)$
ARRAY_LENGTH_REGEX(format) ==
    LET close == rfind(format, "]")
    IN  IF format # <<>> /\ format[1] = "[" /\ close >= 1
        THEN [group1 |-> Some(Slice(format, 1, close)),
              group2 |-> Slice(format, close + 1, Len(format))]
        ELSE [group1 |-> None, group2 |-> format]

\* FormatExpression.__init__
FormatExpression(expression) ==
    LET parts == rsplit(expression)
    IN  IF Len(parts) = 2
        THEN LET match == ARRAY_LENGTH_REGEX(strip(parts[2]))
             IN  [base_expression |-> parts[1],
                  formatspecs |-> Some(parse_format_specifier(match.group2)),
                  array_length |-> match.group1]
        ELSE [base_expression |-> parts[1], formatspecs |-> None, array_length |-> None]

\* The iteration without skip_next: the second brace of an escape is read again
DisplayStringStep_NoSkip(st, c, next) ==
    IF st.in_code
    THEN IF c = "}"
         THEN [st EXCEPT !.in_code = FALSE,
                         !.code_parts = Append(@, FormatExpression(st.current_code)),
                         !.current_code = <<>>]
         ELSE [st EXCEPT !.current_code = @ \o <<c>>]
    ELSE IF c = "{" /\ next = <<"{">>
    THEN [st EXCEPT !.template_string = @ \o <<"{", "{">>]
    ELSE IF c = "}" /\ next = <<"}">>
    THEN [st EXCEPT !.template_string = @ \o <<"}", "}">>]
    ELSE IF c = "{"
    THEN [st EXCEPT !.in_code = TRUE,
                    !.current_code = <<>>,
                    !.template_string = @ \o <<"{">> \o IntToStr(Len(st.code_parts)) \o <<"}">>]
    ELSE [st EXCEPT !.template_string = @ \o <<c>>]

\* One iteration of the loop of DisplayStringParser.__init__ on (c, next)
DisplayStringStep(st, c, next) ==
    IF st.skip_next THEN [st EXCEPT !.skip_next = FALSE]
    ELSE IF st.in_code
    THEN IF c = "}"
         THEN [st EXCEPT !.in_code = FALSE,
                         !.code_parts = Append(@, FormatExpression(st.current_code)),
                         !.current_code = <<>>]
         ELSE [st EXCEPT !.current_code = @ \o <<c>>]
    ELSE IF c = "{" /\ next = <<"{">>
    THEN [st EXCEPT !.skip_next = TRUE, !.template_string = @ \o <<"{", "{">>]
    ELSE IF c = "}" /\ next = <<"}">>
    THEN [st EXCEPT !.skip_next = TRUE, !.template_string = @ \o <<"}", "}">>]
    ELSE IF c = "{"
    THEN [st EXCEPT !.in_code = TRUE,
                    !.current_code = <<>>,
                    !.template_string = @ \o <<"{">> \o IntToStr(Len(st.code_parts)) \o <<"}">>]
    ELSE [st EXCEPT !.template_string = @ \o <<c>>]

\* The loop over lookahead_iter(string, 1), from position i on
RECURSIVE DisplayStringLoop(_, _, _)
DisplayStringLoop(string, i, st) ==
    IF i >= Len(string) THEN st
    ELSE DisplayStringLoop(string, i + 1,
                           DisplayStringStep(st, CharAt(string, i), Slice(string, i + 1, i + 2)))

\* DisplayStringParser.__init__: the fields of the object
DisplayStringParser(string) ==
    LET st == DisplayStringLoop(string, 0,
                  [in_code |-> FALSE, skip_next |-> FALSE, current_code |-> <<>>,
                   template_string |-> <<>>, code_parts |-> <<>>])
    IN  [template_string |-> st.template_string, code_parts |-> st.code_parts]

(***************************************************************************)
(* natvis.py: the rule document                                            *)
(***************************************************************************)
NATVIS_NAMESPACE == "http://schemas.microsoft.com/vstudio/debugger/natvis/2010"

\* An ElementTree tag "{namespace}local"; namespace "" is a tag with no prefix
QName(namespace, local) == [namespace |-> namespace, local |-> local]

Tag(local) == QName("", local)

\* xml.etree.ElementTree.Element: text is None for an element without text
Element(tag, Name, Condition, text, children) ==
    [tag |-> tag, Name |-> Name, Condition |-> Condition, text |-> text,
     children |-> children]

\* What a constructor did: built an object, or raised
Built(object) == [kind |-> "ok", value |-> object]

Throw(exception) == [kind |-> exception, value |-> <<>>]

\* element.find(tag): the first child with that tag, or None
RECURSIVE find(_, _, _)
find(element, tag, i) ==
    IF i > Len(element.children) THEN None
    ELSE IF element.children[i].tag = tag THEN Some(element.children[i])
    ELSE find(element, tag, i + 1)

ExpandItem(name, expression, condition) ==
    [class |-> "ExpandItem", name |-> name, expression |-> expression,
     condition |-> condition]

ExpandIndexListItems(condition, size_expr, value_node) ==
    [class |-> "ExpandIndexListItems", condition |-> condition,
     size_expr |-> size_expr, value_node |-> value_node]

\* NatvisType._parse_item_element: expand_items afterwards
parse_item_element(expand_items, element) ==
    IF element.text.is_none THEN Throw("AttributeError")    \* None.lstrip()
    ELSE Built(Append(expand_items,
                      ExpandItem(element.Name, FormatExpression(strip(element.text.value)),
                                 element.Condition)))

\* NatvisType._parse_index_list_items_element: expand_items afterwards
parse_index_list_items_element(expand_items, element) ==
    LET size_el == find(element, Tag("Size"), 1)
        value_node_el == find(element, Tag("ValueNode"), 1)
    IN  IF size_el.is_none \/ value_node_el.is_none THEN Built(expand_items)
        ELSE IF size_el.value.text.is_none \/ value_node_el.value.text.is_none
        THEN Throw("AttributeError")
        ELSE Built(Append(expand_items,
                          ExpandIndexListItems(element.Condition,
                                               strip(size_el.value.text.value),
                                               strip(value_node_el.value.text.value))))

\* NatvisType._process_expand, from child i on: expand_items afterwards
RECURSIVE process_expand(_, _, _)
process_expand(expand_items, element, i) ==
    IF i > Len(element.children) THEN Built(expand_items)
    ELSE LET child == element.children[i]
             done == IF child.tag = Tag("Item")
                     THEN parse_item_element(expand_items, child)
                     ELSE IF child.tag = Tag("IndexListItems")
                     THEN parse_index_list_items_element(expand_items, child)
                     ELSE Built(expand_items)
         IN  IF done.kind # "ok" THEN done
             ELSE process_expand(done.value, element, i + 1)

DisplayString(parser, condition) == [condition |-> condition, parser |-> parser]

\* The loop over the children of a Type element in NatvisType.__init__, from
\* child i on
RECURSIVE NatvisTypeChildren(_, _, _)
NatvisTypeChildren(self, element, i) ==
    IF i > Len(element.children) THEN Built(self)
    ELSE LET child == element.children[i]
         IN  IF child.tag = Tag("DisplayString")
             THEN IF child.text.is_none THEN Throw("AttributeError")
                  ELSE NatvisTypeChildren(
                           [self EXCEPT !.display_parsers =
                               Append(@, DisplayString(DisplayStringParser(strip(child.text.value)),
                                                       child.Condition))],
                           element, i + 1)
             ELSE IF child.tag = Tag("Expand")
             THEN LET expanded == process_expand(<<>>, child, 1)
                  IN  IF expanded.kind # "ok" THEN expanded
                      ELSE NatvisTypeChildren(
                               [self EXCEPT !.expand_items = Some(expanded.value)],
                               element, i + 1)
             ELSE NatvisTypeChildren(self, element, i + 1)

\* NatvisType.__init__
NatvisType(element) ==
    IF element.Name.is_none THEN Throw("TypeError")     \* regex search in None
    ELSE LET parsed == parse_template_type(element.Name.value)
         IN  IF parsed.kind # "ok" THEN Throw(parsed.kind)
             ELSE NatvisTypeChildren([template_type |-> parsed.type,
                                      display_parsers |-> <<>>,
                                      expand_items |-> None],
                                     element, 1)

\* remove_namespace: the element with the namespace removed from its tag and
\* from the tags of all its descendants
\* remove_namespace that renames the element it is given and no descendant
remove_namespace_RootOnly(doc, namespace) ==
    [doc EXCEPT !.tag = IF @.namespace = namespace THEN Tag(@.local) ELSE @]

RECURSIVE remove_namespace(_, _)
remove_namespace(doc, namespace) ==
    [doc EXCEPT !.tag = IF @.namespace = namespace THEN Tag(@.local) ELSE @,
                !.children = [i \in 1..Len(@) |-> remove_namespace(@[i], namespace)]]

\* The loop of NatvisDocument.__init__ over the root's children, from child i on
RECURSIVE NatvisDocumentChildren(_, _, _)
NatvisDocumentChildren(types, root, i) ==
    IF i > Len(root.children) THEN Built([types |-> types])
    ELSE LET child == root.children[i]
         IN  IF child.tag = Tag("Type")
             THEN LET type == NatvisType(child)
                  IN  IF type.kind # "ok" THEN type
                      ELSE NatvisDocumentChildren(Append(types, type.value), root, i + 1)
             ELSE NatvisDocumentChildren(types, root, i + 1)

\* NatvisDocument.__init__
NatvisDocument(document) ==
    NatvisDocumentChildren(<<>>, remove_namespace(document, NATVIS_NAMESPACE), 1)

(***************************************************************************)
(* The file system NatvisManager reads                                     *)
(*                                                                         *)
(* A path is the sequence of its components below the root directory, and  *)
(* a component is <<stem, extension>>: "/p/a.natvis" is                    *)
(* << <<"p", "">>, <<"a", ".natvis">> >> and "/" is << >>.                  *)
(***************************************************************************)
RootDirectory == <<>>

\* os.path.dirname
dirname(path) == IF path = <<>> THEN <<>> ELSE SubSeq(path, 1, Len(path) - 1)

\* os.path.join(dir, child)
path_join(dir, child) == Append(dir, child)

\* path.endswith(".natvis")
endswith_natvis(path) == path # <<>> /\ path[Len(path)][2] = ".natvis"

\* <Type Name=name><DisplayString>{x}</DisplayString></Type>
RuleElement(name) ==
    Element(QName(NATVIS_NAMESPACE, "Type"), Some(name), None, None,
            << Element(QName(NATVIS_NAMESPACE, "DisplayString"), None, None,
                       Some(<<"{", "x", "}">>), <<>>) >>)

RuleDocument(children) ==
    Element(QName(NATVIS_NAMESPACE, "AutoVisualizer"), None, None, None, children)

\* The directories that exist; "/q/d.natvis" is a directory
Directories ==
    { RootDirectory, << <<"p", "">> >>, << <<"p", "">>, <<"s", "">> >>,
      << <<"q", "">> >>, << <<"q", "">>, <<"d", ".natvis">> >> }

\* What xml.etree.ElementTree.parse reads from a file: the root element of a
\* document, or text that is not XML
Xml(root) == [wellformed |-> TRUE, root |-> root]

NotXml == [wellformed |-> FALSE, root |-> <<>>]

\* The regular files that exist, with their content
FileContent ==
    ( << <<"p", "">>, <<"a", ".natvis">> >>
          :> Xml(RuleDocument(<< RuleElement(<<"a", "<", "*", ">">>),
                                 RuleElement(<<"b">>) >>)) )
    @@ ( << <<"p", "">>, <<"s", "">>, <<"b", ".natvis">> >>
          :> Xml(RuleDocument(<< RuleElement(<<"a", "<", "a", ">">>) >>)) )
    @@ ( << <<"p", "">>, <<"s", "">>, <<"main", ".cpp">> >> :> NotXml )
    @@ ( << <<"q", "">>, <<"bad", ".natvis">> >> :> NotXml )
    @@ ( << <<"q", "">>, <<"main", ".cpp">> >> :> NotXml )

Files == DOMAIN FileContent

\* os.path.isdir, os.path.isfile
isdir(path) == path \in Directories

isfile(path) == path \in Files

\* os.listdir(dir) of a directory that exists: the names in it.  No directory
\* holds two rule files, so the order os.listdir returns the names in,
\* which Python leaves open, does not change what gets loaded.
RECURSIVE SetToSeq(_)
SetToSeq(S) ==
    IF S = {} THEN <<>>
    ELSE LET x == CHOOSE y \in S : TRUE IN <<x>> \o SetToSeq(S \ {x})

listdir(dir) ==
    SetToSeq({ path[Len(path)] : path \in { q \in Directories \cup Files :
                                              q # <<>> /\ dirname(q) = dir } })

(***************************************************************************)
(* natvis.py: NatvisTypeInstance and NatvisManager                         *)
(***************************************************************************)
NatvisTypeInstance(type, template_args) ==
    [type |-> type, template_args |-> template_args]

\* NatvisTypeInstance.match_type: None, or the instance
match_type(typename, type) ==
    LET matched == matches(type.template_type, typename, Some(<<>>))
    IN  IF ~matched.ret THEN None
        ELSE Some(NatvisTypeInstance(type, matched.matched_args.value))

\* The characters \d and \w match, as far as expressions here are written
\* with them
WordCharacters ==
    {"0", "1", "2", "3", "4", "5", "6", "7", "8", "9", "_",
     "a", "b", "c", "i", "n", "x", "y", "T"}

Digits == {"0", "1", "2", "3", "4", "5", "6", "7", "8", "9"}

\* The end of the run of word characters that starts at position i
RECURSIVE WordEnd(_, _)
WordEnd(s, i) ==
    IF i < Len(s) /\ CharAt(s, i) \in WordCharacters THEN WordEnd(s, i + 1) ELSE i

\* VAR_REGEX.sub(r"{\1}", expression) from position i on.  VAR_REGEX is
\* "\$([\d\w])+": the group is one character, repeated, so \1 is the last
\* character of the name.
RECURSIVE VAR_REGEX_sub(_, _)
VAR_REGEX_sub(expression, i) ==
    IF i >= Len(expression) THEN <<>>
    ELSE IF CharAt(expression, i) = "$" /\ WordEnd(expression, i + 1) > i + 1
    THEN LET end == WordEnd(expression, i + 1)
         IN  <<"{", CharAt(expression, end - 1), "}">> \o VAR_REGEX_sub(expression, end)
    ELSE <<CharAt(expression, i)>> \o VAR_REGEX_sub(expression, i + 1)

\* The position of the first "}" at or after position i, -1 if there is none
RECURSIVE FindClose(_, _)
FindClose(s, i) ==
    IF i >= Len(s) THEN -1
    ELSE IF CharAt(s, i) = "}" THEN i
    ELSE FindClose(s, i + 1)

\* int(name) for a name of digits
RECURSIVE StrToInt(_)
StrToInt(name) ==
    IF name = <<>> THEN 0
    ELSE StrToInt(SubSeq(name, 1, Len(name) - 1)) * 10
         + (CHOOSE d \in 0..9 : IntToStr(d) = <<name[Len(name)]>>)

\* The value str.format(*positional, **keywords) puts in place of the field
\* {name}.  auto is how many fields {} were numbered automatically so far,
\* -1 once a field gave its number; auto in what is returned is the same
\* after this field.
format_field(name, auto, positional, keywords) ==
    IF \E k \in 1..Len(name) : name[k] = "{"          \* '{' in a field name
    THEN [kind |-> "ValueError", value |-> <<>>, auto |-> auto]
    ELSE IF name = <<>>
    THEN IF auto = -1 THEN [kind |-> "ValueError", value |-> <<>>, auto |-> auto]
         ELSE IF auto >= Len(positional)
         THEN [kind |-> "IndexError", value |-> <<>>, auto |-> auto]
         ELSE [kind |-> "ok", value |-> positional[auto + 1], auto |-> auto + 1]
    ELSE IF \A k \in 1..Len(name) : name[k] \in Digits
    THEN IF auto > 0 THEN [kind |-> "ValueError", value |-> <<>>, auto |-> auto]
         ELSE IF StrToInt(name) >= Len(positional)
         THEN [kind |-> "IndexError", value |-> <<>>, auto |-> auto]
         ELSE [kind |-> "ok", value |-> positional[StrToInt(name) + 1], auto |-> -1]
    ELSE IF name \notin DOMAIN keywords
    THEN [kind |-> "KeyError", value |-> <<>>, auto |-> auto]
    ELSE [kind |-> "ok", value |-> keywords[name], auto |-> auto]

\* format.format(*positional, **keywords) from position i on, for fields
\* that are plain names or numbers
RECURSIVE str_format(_, _, _, _, _)
str_format(format, i, auto, positional, keywords) ==
    IF i >= Len(format) THEN Built(<<>>)
    ELSE LET c == CharAt(format, i)
             doubled == i + 1 < Len(format) /\ CharAt(format, i + 1) = c
             literal(n) == LET rest == str_format(format, i + n, auto, positional, keywords)
                           IN  IF rest.kind # "ok" THEN rest
                               ELSE Built(<<c>> \o rest.value)
         IN  IF c \notin {"{", "}"} THEN literal(1)
             ELSE IF doubled THEN literal(2)
             ELSE IF c = "}" THEN Throw("ValueError")     \* single '}'
             ELSE LET close == FindClose(format, i + 1)
                  IN  IF close = -1 THEN Throw("ValueError")
                      ELSE LET field == format_field(Slice(format, i + 1, close),
                                                     auto, positional, keywords)
                               rest == str_format(format, close + 1, field.auto,
                                                  positional, keywords)
                           IN  IF field.kind # "ok" THEN Throw(field.kind)
                               ELSE IF rest.kind # "ok" THEN rest
                               ELSE Built(field.value \o rest.value)

\* The dictionary replace_vars builds from template_args: "T1", "T2", ...
TemplateArgsDict(template_args) ==
    [name \in { <<"T">> \o IntToStr(k) : k \in 1..Len(template_args) } |->
        template_args[CHOOSE k \in 1..Len(template_args) : name = <<"T">> \o IntToStr(k)]]

\* NatvisTypeInstance.replace_vars; kwargs is a dictionary from names to strings
replace_vars(self, expression, kwargs) ==
    str_format(VAR_REGEX_sub(expression, 0), 0, 0, <<>>,
               kwargs @@ TemplateArgsDict(self.template_args))

\* What ElementTree.parse and NatvisDocument make of each file that exists,
\* worked out once for each file
ParsedFiles ==
    [path \in Files |->
        IF ~FileContent[path].wellformed THEN Throw("ParseError")
        ELSE NatvisDocument(FileContent[path].root)]

\* NatvisDocument.parse_file
parse_file(path) ==
    IF ~isfile(path) THEN Throw("FileNotFoundError")        \* open() fails
    ELSE ParsedFiles[path]

\* NatvisManager: an object with the fields loaded_types and loaded_files
NatvisManager(types, files) == [loaded_types |-> types, loaded_files |-> files]

\* What a method of the manager did: the manager afterwards, what it
\* returned or yielded, the exception it raised ("" for none) and how many
\* times it ran _load_natvis_files
Done(self, value, raised, scanned) ==
    [self |-> self, value |-> value, raised |-> raised, scanned |-> scanned]

\* The end of load_natvis_file, from the parsed document doc on; added is
\* the manager with the path in loaded_files
AppendTypes(added, doc) ==
    IF doc.kind # "ok" THEN Done(added, None, doc.kind, 0)
    ELSE Done(NatvisManager(added.loaded_types \o doc.value.types, added.loaded_files),
              None, "", 0)

\* load_natvis_file without the test for an already loaded path
load_natvis_file_NoLoadedCheck(self, path) ==
    AppendTypes(NatvisManager(self.loaded_types, self.loaded_files \cup {path}),
                parse_file(path))

\* NatvisManager.load_natvis_file
load_natvis_file(self, path) ==
    IF path \in self.loaded_files THEN Done(self, None, "", 0)
    ELSE AppendTypes(NatvisManager(self.loaded_types, self.loaded_files \cup {path}),
                     parse_file(path))

\* The loop of _find_natvis over the names of one directory, from name i on:
\* the paths it yields
RECURSIVE FindInDirectory(_, _, _)
FindInDirectory(dir, names, i) ==
    IF i > Len(names) THEN <<>>
    ELSE LET path == path_join(dir, names[i])
         IN  IF ~isfile(path) THEN FindInDirectory(dir, names, i + 1)
             ELSE IF endswith_natvis(path)
             THEN <<path>> \o FindInDirectory(dir, names, i + 1)
             ELSE FindInDirectory(dir, names, i + 1)

\* The while loop of _find_natvis from directory dir up: the paths it yields
\* and the exception that ends it ("" when it ends at the root)
RECURSIVE FindUpwards(_)
FindUpwards(dir) ==
    IF dirname(dir) = dir THEN [yielded |-> <<>>, raised |-> ""]
    ELSE IF ~isdir(dir)
    THEN [yielded |-> <<>>, raised |-> "FileNotFoundError"]   \* os.listdir fails
    ELSE LET above == FindUpwards(dirname(dir))
         IN  [yielded |-> FindInDirectory(dir, listdir(dir), 1) \o above.yielded,
              raised |-> above.raised]

\* _find_natvis
find_natvis(filename) ==
    FindUpwards(IF ~isdir(filename) THEN dirname(filename) ELSE filename)

\* The loop of _load_natvis_files over the paths _find_natvis yields, from
\* path i on; the generator raises when the loop asks for a path after the
\* last one it yields.  LoadNext is the loop after load_natvis_file has
\* come to loaded for path i.
RECURSIVE LoadFound(_, _, _), LoadNext(_, _, _)
LoadFound(self, found, i) ==
    IF i > Len(found.yielded) THEN Done(self, None, found.raised, 1)
    ELSE LoadNext(found, i, load_natvis_file(self, found.yielded[i]))

LoadNext(found, i, loaded) ==
    IF loaded.raised # "" THEN Done(loaded.self, None, loaded.raised, 1)
    ELSE LoadFound(loaded.self, found, i + 1)

\* NatvisManager._load_natvis_files
load_natvis_files(self, filename) == LoadFound(self, find_natvis(filename), 1)

\* One loop of lookup_types over loaded_types, from rule i on: what it
\* yields.  A yielded instance is kept with the position of its rule in
\* loaded_types, which tells two rules with equal content apart.
RECURSIVE MatchLoaded(_, _, _)
MatchLoaded(self, typename, i) ==
    IF i > Len(self.loaded_types) THEN <<>>
    ELSE LET instance == match_type(typename, self.loaded_types[i])
         IN  IF instance.is_none THEN MatchLoaded(self, typename, i + 1)
             ELSE <<[rule |-> i, instance |-> instance.value]>>
                      \o MatchLoaded(self, typename, i + 1)

\* The end of lookup_types, after _load_natvis_files has come to loaded:
\* first is what the first loop yielded
YieldAgain(first, typename, loaded) ==
    IF loaded.raised # "" THEN Done(loaded.self, first, loaded.raised, 1)
    ELSE Done(loaded.self, first \o MatchLoaded(loaded.self, typename, 1), "", 1)

\* NatvisManager.lookup_types, iterated to its end: value is what it yielded
\* before it ended or raised
lookup_types(self, typename, filename) ==
    IF filename.is_none THEN Done(self, MatchLoaded(self, typename, 1), "", 0)
    ELSE YieldAgain(MatchLoaded(self, typename, 1), typename,
                    load_natvis_files(self, filename.value))

\* next(iterator, None) for what an iterator yields
FirstOf(yielded) == IF yielded # <<>> THEN Some(yielded[1]) ELSE None

\* lookup_types up to its first yield, after _load_natvis_files has come to
\* loaded
NextAfterDiscovery(typename, loaded) ==
    IF loaded.raised # "" THEN Done(loaded.self, None, loaded.raised, 1)
    ELSE Done(loaded.self, FirstOf(MatchLoaded(loaded.self, typename, 1)), "", 1)

\* lookup_types up to its first yield; first is what its first loop yields
NextYield(self, typename, filename, first) ==
    IF first # <<>> THEN Done(self, FirstOf(first), "", 0)
    ELSE IF filename.is_none THEN Done(self, None, "", 0)
    ELSE NextAfterDiscovery(typename, load_natvis_files(self, filename.value))

\* lookup_type that tries the first loaded rule only
lookup_type_FirstRuleOnly(self, typename, filename) ==
    Done(self,
         FirstOf(MatchLoaded(NatvisManager(IF self.loaded_types = <<>> THEN <<>>
                                           ELSE <<self.loaded_types[1]>>,
                                           self.loaded_files), typename, 1)),
         "", 0)

\* NatvisManager.lookup_type: next(lookup_types(...), None) runs the
\* generator up to its first yield and no further
lookup_type(self, typename, filename) ==
    NextYield(self, typename, filename, MatchLoaded(self, typename, 1))

(***************************************************************************)
(* parser.py: evaluate_expression, and printer.py: NatvisPrinter           *)
(*                                                                         *)
(* What clang and gdb do with an expression is given: this_val maps each   *)
(* expression to what happens when it is evaluated on the value shown.     *)
(***************************************************************************)
\* Python values: None, a str, a bool, and a gdb.Value, which has the text
\* str() gives and the truth bool() gives ("error" when bool() raises, as
\* for a struct)
PyNone == [py |-> "None", text |-> <<>>, truth |-> "false"]

PyStr(text) == [py |-> "str", text |-> text, truth |-> IF text = <<>> THEN "false" ELSE "true"]

PyBool(b) == [py |-> "bool", text |-> IF b THEN <<"T", "r", "u", "e">>
                                       ELSE <<"F", "a", "l", "s", "e">>,
              truth |-> IF b THEN "true" ELSE "false"]

GdbValue(text, truth) == [py |-> "gdb.Value", text |-> text, truth |-> truth]

\* What happens when the full evaluator works on an expression: get_value
\* returns a value, the test method has no statement, clang reports an
\* error or get_value meets a node it does not handle (ParserError), gdb
\* cannot read memory (gdb.MemoryError, with its message), or something
\* else is raised
Evaluates(value) == [happens |-> "value", value |-> value]

NoStatement == [happens |-> "no statement", value |-> PyNone]

Raises(exception, message) == [happens |-> exception, value |-> PyStr(message)]

\* parser.evaluate_expression of the full evaluator
evaluate_expression(this_val, expr) ==
    LET work == this_val[expr]
    IN  CASE work.happens = "value" -> Built(work.value)
          [] work.happens = "no statement" -> Built(PyNone)
          [] work.happens = "MemoryError" -> Built(work.value)      \* str(e)
          [] work.happens = "ParserError" -> Throw("ParserError")   \* logged, raised again
          [] OTHER -> Built(PyNone)                                 \* logged

\* bool(val)
convert_bool(val) ==
    IF val.truth = "error" THEN Throw("gdb.error") ELSE Built(PyBool(val.truth = "true"))

\* A Python int
PyInt(n) ==
    [py |-> "int", text |-> IntToStr(n), truth |-> IF n = 0 THEN "false" ELSE "true", int |-> n]

\* The number a Python int or bool stands for
IntOf(val) == IF val.py = "bool" THEN (IF val.truth = "true" THEN 1 ELSE 0) ELSE val.int

\* The text is a numeral: digits only
IsNumeral(text) == text # <<>> /\ \A k \in 1..Len(text) : text[k] \in Digits

\* int(val): the number of a gdb.Value or str whose text is a numeral, 1 or 0
\* of a bool; gdb.error for a gdb.Value that is no number, ValueError for
\* any other str
convert_int(val) ==
    CASE val.py = "bool" -> Built(PyInt(IF val.truth = "true" THEN 1 ELSE 0))
      [] val.py = "int" -> Built(val)
      [] IsNumeral(val.text) -> Built(PyInt(StrToInt(val.text)))
      [] val.py = "gdb.Value" -> Throw("gdb.error")
      [] OTHER -> Throw("ValueError")

\* NatvisPrinter: the instance, its type and the value shown
NatvisPrinter(instance, val) == [instance |-> instance, type |-> instance.type, val |-> val]

\* convert_func(val) inside its try: None when it raises
Converted(converted) == IF converted.kind # "ok" THEN Built(PyNone) ELSE converted

\* NatvisPrinter._get_value(expression, convert_func, **kwargs); convert is
\* "bool", "int" or "" for no convert_func
get_value(self, expression, convert, kwargs) ==
    LET replaced == replace_vars(self.instance, expression, kwargs)
    IN  IF replaced.kind # "ok" THEN replaced
        ELSE LET val == evaluate_expression(self.val, replaced.value)
             IN  IF val.kind # "ok" THEN val
                 ELSE IF val.value # PyNone
                 THEN CASE convert = "bool" -> Converted(convert_bool(val.value))
                        [] convert = "int" -> Converted(convert_int(val.value))
                        [] OTHER -> val
                 ELSE Built(PyStr(<<"{">> \o replaced.value \o <<"}">>))

\* NatvisPrinter.check_condition
check_condition(self, cond) ==
    IF cond.is_none THEN Built(PyBool(TRUE))
    ELSE get_value(self, cond.value, "bool", <<>>)

\* The loop of to_string over code_parts, from part i on: display_args.
\* str(code_val) is the text of the value, also where a NatvisPrinter of
\* its own gives that text; gdb.default_visualizer is taken to return None
\* for a str.
RECURSIVE DisplayArgs(_, _, _, _)
DisplayArgs(self, code_parts, i, display_args) ==
    IF i > Len(code_parts) THEN Built(display_args)
    ELSE LET code_val == get_value(self, code_parts[i].base_expression, "", <<>>)
         IN  IF code_val.kind # "ok" THEN code_val
             ELSE DisplayArgs(self, code_parts, i + 1,
                              Append(display_args, code_val.value.text))   \* str(code_val)

\* What to_string did: what it returned or raised, which of the
\* display_parsers it chose (0 for none) and how many of them it tried
Shown(result, chosen, tried) ==
    [kind |-> result.kind, value |-> result.value, chosen |-> chosen, tried |-> tried]

\* The loop of to_string over display_parsers, from alternative i on
RECURSIVE ToStringFrom(_, _)
ToStringFrom(self, i) ==
    IF i > Len(self.type.display_parsers)
    THEN Shown(Built(<<"N", "o", " ", "v", "i", "s", "u", "a", "l", "i", "z", "e", "r", " ",
                       "a", "v", "a", "i", "l", "a", "b", "l", "e">>),
               0, Len(self.type.display_parsers))
    ELSE LET string == self.type.display_parsers[i]
             cond == check_condition(self, string.condition)
         IN  IF cond.kind # "ok" THEN Shown(cond, 0, i)
             ELSE IF cond.value.truth # "true" THEN ToStringFrom(self, i + 1)
             ELSE LET display_args == DisplayArgs(self, string.parser.code_parts, 1, <<>>)
                  IN  IF display_args.kind # "ok" THEN Shown(display_args, i, i)
                      ELSE Shown(str_format(string.parser.template_string, 0, 0,
                                            display_args.value, <<>>), i, i)

\* NatvisPrinter.to_string
to_string(self) == ToStringFrom(self, 1)

\* The directive _expand_array_items reads: its condition, size_expr and
\* value_ptr_expr
ExpandArrayItems(condition, size_expr, value_ptr_expr) ==
    [class |-> "ExpandArrayItems", condition |-> condition,
     size_expr |-> size_expr, value_ptr_expr |-> value_ptr_expr]

\* What a generator of children did: the (name, value) pairs it yielded, and
\* "ok" when it then ended or the exception it then raised
Yielded(kind, children) == [kind |-> kind, value |-> children]

\* "[{}]".format(i)
ChildName(i) == <<"[">> \o IntToStr(i) \o <<"]">>

\* range(size) of a size that is no int raises TypeError
IsInt(val) == val.py \in {"int", "bool"}

\* The loop of _expand_index_list_items, from index i on
RECURSIVE IndexListLoop(_, _, _, _, _)
IndexListLoop(self, item, size, i, children) ==
    IF i >= size THEN Yielded("ok", children)
    ELSE LET val == get_value(self, item.value_node, "", <<"i">> :> IntToStr(i))
         IN  IF val.kind # "ok" THEN Yielded(val.kind, children)
             ELSE IndexListLoop(self, item, size, i + 1,
                                Append(children, <<ChildName(i), val.value>>))

\* _expand_index_list_items after the condition held: size and the loop
IndexListSized(self, item, size) ==
    IF size.kind # "ok" THEN Yielded(size.kind, <<>>)
    ELSE IF size.value = PyNone THEN Yielded("ok", <<>>)
    ELSE IF ~IsInt(size.value) THEN Yielded("TypeError", <<>>)     \* range(size)
    ELSE IndexListLoop(self, item, IntOf(size.value), 0, <<>>)

\* The truth of what check_condition returned: a bool, None, or the str
\* _get_value gives when the evaluation failed
Truthy(cond) == cond.value.truth = "true"

\* NatvisPrinter._expand_index_list_items
expand_index_list_items(self, item) ==
    LET cond == check_condition(self, item.condition)
    IN  IF cond.kind # "ok" THEN Yielded(cond.kind, <<>>)
        ELSE IF ~Truthy(cond) THEN Yielded("ok", <<>>)
        ELSE IndexListSized(self, item, get_value(self, item.size_expr, "int", <<>>))

\* A gdb.Value that is a pointer: base advanced by offset elements
GdbPointer(base, offset) == GdbValue(<<base, "+">> \o IntToStr(offset), "true")

IsPointer(val) == val.py = "gdb.Value" /\ Len(val.text) > 2 /\ val.text[2] = "+"

\* gdb.Value.dereference(): the value the pointer points to
dereference(val) == GdbValue(<<"*">> \o val.text, "true")

\* gdb.Value + n for a pointer
pointer_add(val, n) ==
    GdbPointer(val.text[1], StrToInt(SubSeq(val.text, 3, Len(val.text))) + n)

\* The loop of _expand_array_items, from index i on.  A str has no
\* dereference (AttributeError); a gdb.Value that is no pointer cannot be
\* dereferenced (gdb.error).
RECURSIVE ArrayLoop(_, _, _, _)
ArrayLoop(size, i, current_val, children) ==
    IF i >= size THEN Yielded("ok", children)
    ELSE IF current_val.py # "gdb.Value" THEN Yielded("AttributeError", children)
    ELSE IF ~IsPointer(current_val) THEN Yielded("gdb.error", children)
    ELSE ArrayLoop(size, i + 1, pointer_add(current_val, 1),
                   Append(children, <<ChildName(i), dereference(current_val)>>))

\* _expand_array_items after the size was found: the pointer and the loop
ArrayPointed(size, current_val) ==
    IF current_val.kind # "ok" THEN Yielded(current_val.kind, <<>>)
    ELSE IF ~IsInt(size.value) THEN Yielded("TypeError", <<>>)     \* range(size)
    ELSE ArrayLoop(IntOf(size.value), 0, current_val.value, <<>>)

\* _expand_array_items after the condition did not hold: size
ArraySized(self, item, size) ==
    IF size.kind # "ok" THEN Yielded(size.kind, <<>>)
    ELSE IF size.value = PyNone THEN Yielded("ok", <<>>)
    ELSE ArrayPointed(size, get_value(self, item.value_ptr_expr, "", <<>>))

\* NatvisPrinter._expand_array_items
expand_array_items(self, item) ==
    LET cond == check_condition(self, item.condition)
    IN  IF cond.kind # "ok" THEN Yielded(cond.kind, <<>>)
        ELSE IF Truthy(cond) THEN Yielded("ok", <<>>)
        ELSE ArraySized(self, item, get_value(self, item.size_expr, "int", <<>>))

\* The nodes ClangExpressionEvaluator.get_value walks: a clang Cursor with
\* its kind, the text of a literal or of the operator (what get_binary_op
\* and get_unary_op cut out of the content) and its children
Cursor(kind, text, children) == [kind |-> kind, text |-> text, children |-> children]

\* Python's left // right, which rounds down, for right # 0
floordiv(left, right) == IF right > 0 THEN left \div right ELSE (-left) \div (-right)

RECURSIVE power_of_two(_)
power_of_two(n) == IF n = 0 THEN 1 ELSE 2 * power_of_two(n - 1)

\* Python's left << right for ints
lshift(left, right) ==
    IF right < 0 THEN Throw("ValueError") ELSE Built(PyInt(left * power_of_two(right)))

\* The branches of get_value for a BINARY_OPERATOR, for operands that are
\* Python ints or bools
binary_operator(op, left_val, right_val) ==
    LET l == IntOf(left_val)
        r == IntOf(right_val)
    IN  CASE op = <<"=", "=">> -> Built(PyBool(l = r))
          [] op = <<"!", "=">> -> Built(PyBool(l # r))
          [] op = <<"<">> -> Built(PyBool(l < r))
          [] op = <<"<", "=">> -> Built(PyBool(l <= r))
          [] op = <<">">> -> Built(PyBool(l > r))
          [] op = <<">", "=">> -> Built(PyBool(l >= r))
          [] op = <<"&", "&">> -> Built(IF left_val.truth = "true" THEN right_val ELSE left_val)
          [] op = <<"|", "|">> -> Built(IF left_val.truth = "true" THEN left_val ELSE right_val)
          [] op = <<"-">> -> Built(PyInt(l - r))
          [] op = <<"+">> -> Built(PyInt(l + r))
          [] op = <<"*">> -> Built(PyInt(l * r))
          [] op = <<"/">> -> IF r = 0 THEN Throw("ZeroDivisionError")
                             ELSE Built(PyInt(floordiv(l, r)))
          [] op = <<"<", "<">> -> lshift(l, r)
          [] op = <<">", ">">> -> lshift(l, r)
          [] OTHER -> Throw("ParserError")

\* The branches of get_value for a UNARY_OPERATOR, for an operand that is a
\* Python int or bool: it has no address, dereference or type
unary_operator(op, val) ==
    CASE op = <<"!">> -> Built(PyBool(val.truth # "true"))
      [] op \in { <<"&">>, <<"*">>, <<"s", "i", "z", "e", "o", "f">> } -> Throw("AttributeError")
      [] OTHER -> Throw("ParserError")

\* ClangExpressionEvaluator.get_value for literals, operators and
\* parentheses
RECURSIVE evaluator_get_value(_)
evaluator_get_value(expr_cursor) ==
    CASE expr_cursor.kind = "INTEGER_LITERAL" ->
            IF IsNumeral(expr_cursor.text) THEN Built(PyInt(StrToInt(expr_cursor.text)))
            ELSE Throw("ValueError")
      [] expr_cursor.kind = "CXX_BOOL_LITERAL_EXPR" ->
            Built(PyBool(expr_cursor.text = <<"t", "r", "u", "e">>))
      [] expr_cursor.kind = "PAREN_EXPR" -> evaluator_get_value(expr_cursor.children[1])
      [] expr_cursor.kind = "UNARY_OPERATOR" ->
            IF evaluator_get_value(expr_cursor.children[1]).kind # "ok"
            THEN evaluator_get_value(expr_cursor.children[1])
            ELSE unary_operator(expr_cursor.text,
                                evaluator_get_value(expr_cursor.children[1]).value)
      [] expr_cursor.kind = "BINARY_OPERATOR" ->
            IF evaluator_get_value(expr_cursor.children[1]).kind # "ok"
            THEN evaluator_get_value(expr_cursor.children[1])
            ELSE IF evaluator_get_value(expr_cursor.children[2]).kind # "ok"
            THEN evaluator_get_value(expr_cursor.children[2])
            ELSE binary_operator(expr_cursor.text,
                                 evaluator_get_value(expr_cursor.children[1]).value,
                                 evaluator_get_value(expr_cursor.children[2]).value)
      [] OTHER -> Throw("ParserError")

(***************************************************************************)
(* utils.py and type_mapping.py: the type graph of GdbTypeFormatter        *)
(*                                                                         *)
(* A gdb.Type is a record with its code.  A named struct has its tag and   *)
(* finds its fields in the program, the sequence of the field declarations *)
(* of all named structs; a struct without a name carries its fields.       *)
(* Unions are handled as structs are; function types are not among the     *)
(* types modelled.                                                         *)
(***************************************************************************)
IntType == [code |-> "int"]

StructType(tag) == [code |-> "struct", tag |-> Some(tag)]

UnnamedStruct(members) == [code |-> "struct", tag |-> None, members |-> members]

PointerType(target) == [code |-> "ptr", target |-> target]

ReferenceType(target) == [code |-> "ref", target |-> target]

RvalueReferenceType(target) == [code |-> "rvalue_ref", target |-> target]

ArrayType(target) == [code |-> "array", target |-> target]

TypedefType(target) == [code |-> "typedef", target |-> target]

\* gdb.Field: its name (None for an anonymous member) and type
Field(name, type) == [name |-> name, type |-> type]

\* A field declaration of the program: the struct that owns it and the field
Declaration(owner, field) == [owner |-> owner, field |-> field]

\* gdb.Type.strip_typedefs()
RECURSIVE strip_typedefs(_)
strip_typedefs(t) == IF t.code = "typedef" THEN strip_typedefs(t.target) ELSE t

\* utils.get_basic_type: unqualified() changes nothing here
RECURSIVE get_basic_type(_)
get_basic_type(type_) ==
    IF type_.code \in {"ref", "rvalue_ref", "ptr"} THEN get_basic_type(type_.target)
    ELSE IF type_.code = "typedef" THEN get_basic_type(strip_typedefs(type_))
    ELSE type_

\* The loop of utils.get_struct_type
RECURSIVE StripToTarget(_)
StripToTarget(t) ==
    IF t.code \in {"ptr", "ref", "rvalue_ref", "array", "typedef"} THEN StripToTarget(t.target)
    ELSE t

\* utils.get_struct_type
get_struct_type(t) ==
    LET stripped == StripToTarget(strip_typedefs(t))
    IN  IF stripped.code # "struct" THEN None ELSE Some(stripped)

\* utils.get_type_name_or_tag
get_type_name_or_tag(t) == IF t.code = "struct" THEN t.tag ELSE Some(t.code)

\* gdb.Type.fields() of a struct
RECURSIVE FieldsOf(_, _, _)
FieldsOf(program, tag, i) ==
    IF i > Len(program) THEN <<>>
    ELSE IF program[i].owner = tag THEN <<program[i].field>> \o FieldsOf(program, tag, i + 1)
    ELSE FieldsOf(program, tag, i + 1)

fields(program, t) == IF t.tag.is_none THEN t.members ELSE FieldsOf(program, t.tag.value, 1)

\* TypeAggregator: type_list in insertion order, work_list, and the
\* references: <<x, y>> stands for y in x.referenced_types and x in
\* y.referencing_types, which the code always changes together.  A
\* TypeWrapper is its type: wrappers are equal when their names are.
TypeAggregator(type_list, work_list, references) ==
    [type_list |-> type_list, work_list |-> work_list, references |-> references]

InList(list, t) == \E k \in 1..Len(list) : list[k] = t

\* TypeAggregator.add_work_item: the aggregator afterwards
add_work_item(agg, t) ==
    IF InList(agg.type_list, t) THEN agg
    ELSE TypeAggregator(Append(agg.type_list, t), Append(agg.work_list, t), agg.references)

\* TypeAggregator.add_type_reference(parent, type)
add_type_reference(agg, parent, type) ==
    TypeAggregator(agg.type_list, agg.work_list, agg.references \cup {<<parent, type>>})

\* TypeAggregator.remove_type_reference(parent, type)
remove_type_reference(agg, parent, type) ==
    TypeAggregator(agg.type_list, agg.work_list, agg.references \ {<<parent, type>>})

\* GdbTypeFormatter._process_type and _process_type_fields (from field i
\* on): the aggregator afterwards
RECURSIVE process_type(_, _, _, _, _), process_type_fields(_, _, _, _, _)
process_type(program, parent_type, t0, agg, process_fields) ==
    LET t == strip_typedefs(t0)
        basic == get_struct_type(t)
    IN  IF t.code \in {"ptr", "ref"}
        THEN IF basic.is_none THEN agg ELSE add_work_item(agg, basic.value)
        ELSE IF basic.is_none THEN agg
        ELSE IF process_fields \/ get_type_name_or_tag(basic.value).is_none
        THEN process_type_fields(program, parent_type, basic.value, agg, 1)
        ELSE add_type_reference(add_work_item(agg, basic.value), basic.value, parent_type)

process_type_fields(program, parent_type, t, agg, i) ==
    IF i > Len(fields(program, t)) THEN agg
    ELSE process_type_fields(program, parent_type, t,
                             process_type(program, parent_type, fields(program, t)[i].type, agg,
                                          fields(program, t)[i].name.is_none),
                             i + 1)

\* GdbTypeFormatter._build_type_graph
RECURSIVE build_type_graph(_, _)
build_type_graph(program, agg) ==
    IF agg.work_list = <<>> THEN agg
    ELSE build_type_graph(program,
                          process_type_fields(program, Head(agg.work_list), Head(agg.work_list),
                                              TypeAggregator(agg.type_list, Tail(agg.work_list),
                                                             agg.references),
                                              1))

\* x.referencing_types: the types x is in the referenced_types of
referencing_types(references, x) == { r[1] : r \in { q \in references : q[2] = x } }

\* x.referenced_types
referenced_types(references, x) == { r[2] : r \in { q \in references : q[1] = x } }

\* The references left when all references of n are removed
WithoutReferencesOf(references, n) == { r \in references : r[1] # n }

\* The same pass when m is added to S without looking at its
\* referencing_types
Popped_NoReferencingCheck(L, S, references, n) ==
    [L |-> Append(L, n),
     S |-> (S \ {n}) \cup referenced_types(references, n),
     references |-> WithoutReferencesOf(references, n)]

\* One pass of the while loop of _topological_sort for the n popped from S:
\* the m whose referencing_types became empty are added to S
Popped(L, S, references, n) ==
    [L |-> Append(L, n),
     S |-> (S \ {n}) \cup { m \in referenced_types(references, n) :
                              referencing_types(WithoutReferencesOf(references, n), m) = {} },
     references |-> WithoutReferencesOf(references, n)]

\* The while loop of _topological_sort.  S.pop() takes any element of the
\* set, so the loop can end with any of these L; the references left are
\* returned with it.
RECURSIVE SortLoop(_)
SortLoop(st) ==
    IF st.S = {} THEN { [L |-> st.L, references |-> st.references] }
    ELSE UNION { SortLoop(Popped(st.L, st.S, st.references, n)) : n \in st.S }

\* GdbTypeFormatter._topological_sort: what it may return or raise
topological_sort(agg) ==
    { IF sorted.references # {} THEN Throw("AssertionError") ELSE Built(sorted.L) :
        sorted \in SortLoop([L |-> <<>>,
                             S |-> { x \in { agg.type_list[k] : k \in 1..Len(agg.type_list) } :
                                       referencing_types(agg.references, x) = {} },
                             references |-> agg.references]) }

\* GdbTypeFormatter.get_type_name for the k-th name asked for: _GdbType_(k-1)
get_type_name(k) == <<"_", "G", "d", "b", "T", "y", "p", "e", "_">> \o IntToStr(k - 1)

\* A forward declaration (_get_type_declaration) and a full declaration
\* (_get_type_string) of the k-th sorted type
ForwardDeclaration(t, k) == [declares |-> "forward", type |-> t, name |-> get_type_name(k)]

FullDeclaration(t, k) == [declares |-> "full", type |-> t, name |-> get_type_name(k)]

\* forward_decls followed by decls, for the sorted types
Declarations(sorted_types) ==
    [k \in 1..Len(sorted_types) |-> ForwardDeclaration(sorted_types[k], k)]
    \o [k \in 1..Len(sorted_types) |-> FullDeclaration(sorted_types[k], k)]

\* What get_type_string did: the declarations it returned or the exception
\* it raised, with the type graph it had built
Formatted(sorted, agg) ==
    [kind |-> sorted.kind,
     value |-> IF sorted.kind = "ok" THEN Declarations(sorted.value) ELSE <<>>,
     type_list |-> agg.type_list, references |-> agg.references]

\* The type graph get_type_string builds for t
TypeGraph(program, t) ==
    build_type_graph(program, add_work_item(TypeAggregator(<<>>, <<>>, {}), get_basic_type(t)))

\* GdbTypeFormatter.get_type_string: what it may do
get_type_string(program, t) ==
    { Formatted(sorted, TypeGraph(program, t)) :
        sorted \in topological_sort(TypeGraph(program, t)) }

(***************************************************************************)
(* Inputs                                                                  *)
(***************************************************************************)
\* The characters type strings are written with
TypeChars == {"a", "*", "<", ">", ",", " "}

TypeStrings == SeqsUpTo(TypeChars, MaxLen)

\* TemplateTypes with exactly n nodes and names from names; Forests are the
\* argument lists with n nodes in all
RECURSIVE TypesOfSize(_, _), Forests(_, _)
TypesOfSize(names, n) ==
    IF n < 1 THEN {}
    ELSE {TemplateType(name, args) : name \in names, args \in Forests(names, n - 1)}

Forests(names, n) ==
    IF n = 0 THEN {<<>>}
    ELSE UNION {{<<first>> \o rest : first \in TypesOfSize(names, k),
                                     rest \in Forests(names, n - k)} : k \in 1..n}

TypesUpTo(names, n) == UNION {TypesOfSize(names, k) : k \in 1..n}

PatternTypes == TypesUpTo({<<"a">>, <<"*">>}, MaxNodes)

InstanceTypes == TypesUpTo({<<"a">>, <<"b">>}, MaxNodes)

MatchedArgs == {None, Some(<<>>), Some(<< <<"b">> >>)}

\* The pieces a display string is written from: a literal character, an
\* escaped brace, or a placeholder {text}
Text(c) == [kind |-> "text", text |-> <<c>>]

Escape(c) == [kind |-> "escape", text |-> <<c, c>>]

Code(text) == [kind |-> "code", text |-> <<"{">> \o text \o <<"}">>]

CodeTexts == {<<"x">>, <<"y", ",", "d">>, <<"f", "(", "x", ",", "y", ")">>,
              <<"x", ",", "[", "n", "]", "s", "b">>}

Segments == {Text("a"), Text(",")} \cup {Escape("{"), Escape("}")}
            \cup {Code(text) : text \in CodeTexts}

\* The display string written from the pieces
DisplayText(segments) == Concat([i \in 1..Len(segments) |-> segments[i].text])

\* Elements of a rule document
Chars1(a) == <<a>>

TextElement(local, text) == Element(Tag(local), None, None, Some(text), <<>>)

ExpandElement ==
    Element(Tag("Expand"), None, None, None,
            << Element(Tag("Item"), Some(<<"n">>), None, Some(<<"x", ",", "d">>), <<>>),
               Element(Tag("IndexListItems"), None, None, None,
                       << TextElement("Size", <<"n">>), TextElement("ValueNode", <<"x">>) >>),
               Element(Tag("IndexListItems"), None, None, None,
                       << TextElement("Size", <<"n">>) >>) >>)

\* A Type element in the natvis namespace, as ElementTree reads it from a
\* document that declares the namespace
PrefixedType ==
    Element(QName(NATVIS_NAMESPACE, "Type"), Some(<<"a", "<", "*", ">">>), None, None,
            << Element(QName(NATVIS_NAMESPACE, "DisplayString"), None, Some(<<"c">>),
                       Some(<<" ", "{", "x", "}">>), <<>>),
               Element(QName(NATVIS_NAMESPACE, "DisplayString"), None, None,
                       Some(<<"{", "{", "{", "y", "}">>), <<>>) >>)

PlainType ==
    Element(Tag("Type"), Some(<<"b">>), None, None,
            << TextElement("DisplayString", <<"{", "x", "}">>), ExpandElement >>)

\* <Type Name="a<"> does not parse
MalformedNameType == Element(Tag("Type"), Some(<<"a", "<">>), None, None, <<>>)

\* <Type Name="a"><DisplayString/></Type>
EmptyDisplayStringType ==
    Element(QName(NATVIS_NAMESPACE, "Type"), Some(<<"a">>), None, None,
            << Element(QName(NATVIS_NAMESPACE, "DisplayString"), None, None, None, <<>>) >>)

\* <Type/>: no Name attribute
NamelessType == Element(Tag("Type"), None, None, None, <<>>)

\* A Type element of another schema version
OtherNamespaceType ==
    Element(QName("http://schemas.microsoft.com/vstudio/debugger/natvis/2011", "Type"),
            Some(<<"a">>), None, None, <<>>)

\* A child of the root that is not a Type, with a Type nested in it
OtherElement ==
    Element(QName(NATVIS_NAMESPACE, "UIVisualizer"), None, None, None, <<PlainType>>)

RootChildren == {PrefixedType, PlainType, MalformedNameType, EmptyDisplayStringType,
                 NamelessType, OtherNamespaceType, OtherElement}

Documents ==
    {Element(QName(NATVIS_NAMESPACE, "AutoVisualizer"), None, None, None, children) :
        children \in SeqsUpTo(RootChildren, MaxChildren)}

\* How many calls are made on one NatvisManager
MaxCalls == 3

\* The type names looked up: a<a>, which the rules a<*> and a<a> match, b,
\* which the rule b matches, and c, which no rule matches
LookupTypenames ==
    { TemplateType(<<"a">>, <<TemplateType(<<"a">>, <<>>)>>),
      TemplateType(<<"b">>, <<>>), TemplateType(<<"c">>, <<>>) }

\* The paths load_natvis_file is called with: two rule files, a file that is
\* not XML and a path that does not exist
LoadPaths ==
    { << <<"p", "">>, <<"a", ".natvis">> >>,
      << <<"p", "">>, <<"s", "">>, <<"b", ".natvis">> >>,
      << <<"q", "">>, <<"bad", ".natvis">> >>,
      << <<"p", "">>, <<"missing", ".natvis">> >> }

\* The filename argument of a lookup: None, or the source file of the value
\* shown; the directory of "/gone/main.cpp" does not exist on this machine
LookupFilenames ==
    { None,
      Some(<< <<"p", "">>, <<"s", "">>, <<"main", ".cpp">> >>),
      Some(<< <<"q", "">>, <<"main", ".cpp">> >>),
      Some(<< <<"gone", "">>, <<"main", ".cpp">> >>) }

\* How many pieces an expression of replace_vars is written from
MaxPieces == 3

\* The pieces of an expression: a character that is no part of a name, or a
\* variable $T1, $T2 or $i
Variable(name) == [variable |-> TRUE, text |-> name]

Other(c) == [variable |-> FALSE, text |-> <<c>>]

Pieces ==
    { Variable(<<"T", "1">>), Variable(<<"T", "2">>), Variable(<<"i">>),
      Other("+"), Other("["), Other("]") }

\* The expression written from the pieces
RECURSIVE ExpressionText(_)
ExpressionText(pieces) ==
    IF pieces = <<>> THEN <<>>
    ELSE (IF Head(pieces).variable THEN <<"$">> \o Head(pieces).text
          ELSE Head(pieces).text) \o ExpressionText(Tail(pieces))

\* The template arguments an instance was matched with: none, "a", or "a"
\* and "b*"
TemplateArgs == { <<>>, << <<"a">> >>, << <<"a">>, <<"b", "*">> >> }

\* The keyword arguments of replace_vars: none, or i="0"
Kwargs == { <<>>, (<<"i">> :> <<"0">>) }

\* The children of an Expand element: an Item, an IndexListItems with Size
\* and ValueNode, one without ValueNode, an ArrayItems and an ExpandedItem
ExpandChildren ==
    { Element(Tag("Item"), Some(<<"n">>), None, Some(<<"x">>), <<>>),
      Element(Tag("IndexListItems"), None, None, None,
              << TextElement("Size", <<"n">>), TextElement("ValueNode", <<"x">>) >>),
      Element(Tag("IndexListItems"), None, None, None,
              << TextElement("Size", <<"n">>) >>),
      Element(Tag("ArrayItems"), None, None, None,
              << TextElement("Size", <<"n">>), TextElement("ValuePointer", <<"x">>) >>),
      Element(Tag("ExpandedItem"), None, None, Some(<<"x">>), <<>>) }

\* <Type Name="a"><Expand>children</Expand></Type>
ExpandType(children) ==
    Element(Tag("Type"), Some(<<"a">>), None, None,
            << Element(Tag("Expand"), None, None, None, children) >>)

\* How many DisplayString alternatives a type has
MaxAlternatives == 2

\* The conditions c and d and the expression x of the display strings
PrinterExpressions == { <<"c">>, <<"d">>, <<"x">> }

\* The DisplayString alternatives: "{x}" or "t", with no condition or with
\* the condition c or d
Alternatives ==
    { DisplayString(DisplayStringParser(text), condition) :
        text \in { <<"{", "x", "}">>, <<"t">> },
        condition \in { None, Some(<<"c">>), Some(<<"d">>) } }

\* What evaluating an expression may come to: a value that is true, one
\* that is false, a struct, no statement, and the three kinds of exception
Happenings ==
    { Evaluates(GdbValue(<<"1">>, "true")), Evaluates(GdbValue(<<"0">>, "false")),
      Evaluates(GdbValue(<<"s">>, "error")), NoStatement,
      Raises("ParserError", <<"e">>), Raises("MemoryError", <<"e">>),
      Raises("Exception", <<"e">>) }

\* A type with the given display_parsers, matched with no template arguments
PrintedInstance(display_parsers) ==
    NatvisTypeInstance([template_type |-> TemplateType(<<"a">>, <<>>),
                        display_parsers |-> display_parsers,
                        expand_items |-> None], <<>>)

\* The largest size a size expression evaluates to
MaxSize == 2

\* The value expression of an IndexListItems with the index put in: x[i]
ValueExpression(i) == <<"x", "[">> \o IntToStr(i) \o <<"]">>

\* The expressions of the directives: the condition c, the size n, the
\* pointer p and the value expressions x[0]..
ItemExpressions == { <<"c">>, <<"n">>, <<"p">> } \cup { ValueExpression(i) : i \in 0..MaxSize - 1 }

\* The directives: an IndexListItems with value node x[$i] and an ArrayItems
\* with pointer p, both of size n, with no condition or the condition c
Directives ==
    { ExpandIndexListItems(condition, <<"n">>, <<"x", "[", "$", "i", "]">>) :
        condition \in { None, Some(<<"c">>) } }
    \cup { ExpandArrayItems(condition, <<"n">>, <<"p">>) : condition \in { None, Some(<<"c">>) } }

\* What evaluating the size may come to: a number, a struct, no statement
\* and the three kinds of exception
SizeHappenings ==
    { Evaluates(GdbValue(IntToStr(n), IF n = 0 THEN "false" ELSE "true")) : n \in 0..MaxSize }
    \cup { Evaluates(GdbValue(<<"s">>, "error")), NoStatement, Raises("ParserError", <<"e">>),
           Raises("MemoryError", <<"e">>), Raises("Exception", <<"e">>) }

\* What evaluating the pointer may come to: a pointer, a struct, no statement
\* or a ParserError
PointerHappenings ==
    { Evaluates(GdbPointer("q", 0)), Evaluates(GdbValue(<<"s">>, "error")), NoStatement,
      Raises("ParserError", <<"e">>) }

\* What evaluating x[i] may come to: the element, no statement or a
\* ParserError
ValueHappening(i, outcome) ==
    CASE outcome = "value" -> Evaluates(GdbValue(<<"v">> \o IntToStr(i), "true"))
      [] outcome = "no statement" -> NoStatement
      [] OTHER -> Raises("ParserError", <<"e">>)

\* The index of a value expression x[i]
IndexOfValue(expression) == CHOOSE i \in 0..MaxSize - 1 : ValueExpression(i) = expression

\* What the evaluator may do with the expressions of a directive
ItemEvaluators ==
    { [ expression \in ItemExpressions |->
          CASE expression = <<"c">> -> c
            [] expression = <<"n">> -> n
            [] expression = <<"p">> -> p
            [] OTHER -> ValueHappening(IndexOfValue(expression), v[IndexOfValue(expression)]) ] :
        c \in Happenings, n \in SizeHappenings, p \in PointerHappenings,
        v \in [0..MaxSize - 1 -> {"value", "no statement", "ParserError"}] }

\* The named structs of the program, and how many fields it declares at most
StructTags == {"A", "B", "C"}

MaxFields == 2

\* The types of the fields: a struct by value, an array of it, a pointer to
\* it, an rvalue reference to it, an array of pointers to it, and an unnamed
\* struct holding it
FieldTypes ==
    UNION { { StructType(tag), ArrayType(StructType(tag)), PointerType(StructType(tag)),
              RvalueReferenceType(StructType(tag)),
              ArrayType(PointerType(StructType(tag))) } : tag \in StructTags }

AnonymousMembers ==
    { Field(None, UnnamedStruct(<<Field(Some("g"), StructType(tag))>>)) : tag \in StructTags }

Declarations1 ==
    { Declaration(owner, field) :
        owner \in StructTags,
        field \in { Field(Some("f"), type) : type \in FieldTypes } \cup AnonymousMembers }

\* The struct x holds the struct y by value: directly, as the element of an
\* array or inside an unnamed struct
HoldsByValue(program, x, y) ==
    \E k \in 1..Len(program) :
        /\ program[k].owner = x
        /\ \/ program[k].field.type \in { StructType(y), ArrayType(StructType(y)) }
           \/ program[k].field \in AnonymousMembers
              /\ program[k].field.type.members[1].type = StructType(y)

\* A program compiles when no struct holds itself by value, directly or
\* through other structs
RECURSIVE HoldsWithin(_, _, _, _)
HoldsWithin(program, x, y, n) ==
    \/ HoldsByValue(program, x, y)
    \/ n > 1 /\ \E z \in StructTags : HoldsByValue(program, x, z) /\ HoldsWithin(program, z, y, n - 1)

Compiles(program) == \A x \in StructTags : ~HoldsWithin(program, x, x, Cardinality(StructTags))

Programs == { program \in SeqsUpTo(Declarations1, MaxFields) : Compiles(program) }

\* The types get_type_string is called with: a struct or a pointer to it
FormattedTypes == { StructType("A"), PointerType(StructType("B")) }

\* The largest integer literal of an expression
MaxLiteral == 7

IntegerLiteral(n) == Cursor("INTEGER_LITERAL", IntToStr(n), <<>>)

BoolLiteral(text) == Cursor("CXX_BOOL_LITERAL_EXPR", text, <<>>)

Paren(cursor) == Cursor("PAREN_EXPR", <<>>, <<cursor>>)

Unary(op, cursor) == Cursor("UNARY_OPERATOR", op, <<cursor>>)

Binary(op, left, right) == Cursor("BINARY_OPERATOR", op, <<left, right>>)

Literals ==
    { IntegerLiteral(n) : n \in 0..MaxLiteral }
    \cup { BoolLiteral(<<"t", "r", "u", "e">>), BoolLiteral(<<"f", "a", "l", "s", "e">>) }

\* The binary operators the evaluator handles, and one it does not
BinaryOperators ==
    { <<"=", "=">>, <<"!", "=">>, <<"<">>, <<"<", "=">>, <<">">>, <<">", "=">>, <<"&", "&">>,
      <<"|", "|">>, <<"-">>, <<"+">>, <<"*">>, <<"/">>, <<"<", "<">>, <<">", ">">>, <<"%">> }

\* The expressions evaluated: a literal, !x and -x, x op y, and (x - y) op z
\* for literals x, y and z
Expressions ==
    Literals
    \cup { Unary(op, x) : op \in { <<"!">>, <<"-">> }, x \in Literals }
    \cup { Binary(op, x, y) : op \in BinaryOperators, x \in Literals, y \in Literals }
    \cup { Binary(op, Paren(Binary(<<"-">>, x, y)), z) :
             op \in BinaryOperators, x \in Literals, y \in Literals, z \in Literals }

\* The longest format specifier text parsed, and the characters it is
\* written with: those of s, sb, s8b, su, sub, s32, s32b, h and hr, and z,
\* which no alias holds
MaxSpecLen == 4

SpecChars == {"s", "3", "2", "8", "b", "u", "h", "r", "z"}

SpecStrings == SeqsUpTo(SpecChars, MaxSpecLen)

\* The longest display string parsed as written, and its characters
MaxStringLen == 5

StringChars == {"{", "}", "x", ","}

DisplayStrings == SeqsUpTo(StringChars, MaxStringLen)

(***************************************************************************)
(* Specifications: each draws the arguments of an operation and runs it    *)
(***************************************************************************)
NotRun == [kind |-> "not run"]

NoTemplates == tt_input = <<>> /\ tt_result = NotRun /\ tt_str = <<>>

NoMatch == m_self = NoType /\ m_other = NoType /\ m_args = None /\ m_result = NotRun

NoDisplay == ds_segments = <<>> /\ ds_parser = NotRun

NoDocument == nv_document = <<>> /\ nv_result = NotRun

NoManager ==
    /\ loaded_types = <<>> /\ loaded_files = {} /\ scans = 0 /\ calls = 0
    /\ prev_call = NotRun /\ last_call = NotRun

NoReplace ==
    /\ rv_expression = <<>> /\ rv_template_args = <<>> /\ rv_kwargs = <<>>
    /\ rv_result = NotRun

NoExpand == ex_children = <<>> /\ ex_result = NotRun

NoPrinter == pr_parsers = <<>> /\ pr_evaluator = <<>> /\ pr_result = NotRun

NoItems == it_item = <<>> /\ it_evaluator = <<>> /\ it_result = NotRun

NoEvaluator == ev_cursor = <<>> /\ ev_result = NotRun

NoGraph == tg_program = <<>> /\ tg_type = <<>> /\ tg_result = NotRun

NoFormat == fs_spec = <<>> /\ fs_result = NotRun

NoString == dr_string = <<>> /\ dr_parser = NotRun

NoLater == NoItems /\ NoEvaluator /\ NoGraph /\ NoFormat /\ NoString

NoOthers == NoManager /\ NoReplace /\ NoExpand /\ NoPrinter /\ NoLater

\* parse_template_type(tt_input)
ParseTemplateType ==
    /\ pc = "start"
    /\ tt_result' = parse_template_type(tt_input)
    /\ pc' = "parsed"
    /\ UNCHANGED <<tt_input, tt_str, matchVars, displayVars, documentVars,
                   managerVars, replaceVars, expandVars, printerVars, laterVars>>

\* str() of the TemplateType that was parsed
StrTemplateType ==
    /\ pc = "parsed"
    /\ tt_result.kind = "ok"
    /\ tt_str' = str(tt_result.type)
    /\ pc' = "rendered"
    /\ UNCHANGED <<tt_input, tt_result, matchVars, displayVars, documentVars,
                   managerVars, replaceVars, expandVars, printerVars, laterVars>>

InitTemplates ==
    /\ tt_input \in TypeStrings
    /\ tt_result = NotRun
    /\ tt_str = <<>>
    /\ pc = "start"
    /\ NoMatch /\ NoDisplay /\ NoDocument /\ NoOthers

NextTemplates == ParseTemplateType \/ StrTemplateType

SpecTemplates == InitTemplates /\ [][NextTemplates]_vars

\* m_self.matches(m_other, m_args)
Matches ==
    /\ pc = "start"
    /\ m_result' = matches(m_self, m_other, m_args)
    /\ pc' = "matched"
    /\ UNCHANGED <<m_self, m_other, m_args, templateVars, displayVars, documentVars,
                   managerVars, replaceVars, expandVars, printerVars, laterVars>>

InitMatch ==
    /\ m_self \in PatternTypes
    /\ m_other \in InstanceTypes
    /\ m_args \in MatchedArgs
    /\ m_result = NotRun
    /\ pc = "start"
    /\ NoTemplates /\ NoDisplay /\ NoDocument /\ NoOthers

NextMatch == Matches

SpecMatch == InitMatch /\ [][NextMatch]_vars

\* DisplayStringParser(string)
ParseDisplayString ==
    /\ pc = "start"
    /\ ds_parser' = DisplayStringParser(DisplayText(ds_segments))
    /\ pc' = "parsed"
    /\ UNCHANGED <<ds_segments, templateVars, matchVars, documentVars,
                   managerVars, replaceVars, expandVars, printerVars, laterVars>>

InitDisplay ==
    /\ ds_segments \in SeqsUpTo(Segments, MaxSegments)
    /\ ds_parser = NotRun
    /\ pc = "start"
    /\ NoTemplates /\ NoMatch /\ NoDocument /\ NoOthers

NextDisplay == ParseDisplayString

SpecDisplay == InitDisplay /\ [][NextDisplay]_vars

\* NatvisDocument(document)
ParseDocument ==
    /\ pc = "start"
    /\ nv_result' = NatvisDocument(nv_document)
    /\ pc' = "parsed"
    /\ UNCHANGED <<nv_document, templateVars, matchVars, displayVars,
                   managerVars, replaceVars, expandVars, printerVars, laterVars>>

InitDocument ==
    /\ nv_document \in Documents
    /\ nv_result = NotRun
    /\ pc = "start"
    /\ NoTemplates /\ NoMatch /\ NoDisplay /\ NoOthers

NextDocument == ParseDocument

SpecDocument == InitDocument /\ [][NextDocument]_vars

\* A call made on the manager, what it did, and the manager before it
Call(kind, path, typename, filename, done) ==
    [kind |-> kind, path |-> path, typename |-> typename, filename |-> filename,
     value |-> done.value, raised |-> done.raised,
     before |-> [loaded_types |-> loaded_types, loaded_files |-> loaded_files,
                 scans |-> scans]]

\* The manager after a call that came to done
Manager(kind, path, typename, filename, done) ==
    /\ loaded_types' = done.self.loaded_types
    /\ loaded_files' = done.self.loaded_files
    /\ scans' = scans + done.scanned
    /\ calls' = calls + 1
    /\ prev_call' = last_call
    /\ last_call' = Call(kind, path, typename, filename, done)

\* manager.load_natvis_file(path)
LoadNatvisFile ==
    /\ calls < MaxCalls
    /\ \E path \in LoadPaths :
          Manager("load_natvis_file", path, NoType, None,
                  load_natvis_file(NatvisManager(loaded_types, loaded_files), path))
    /\ UNCHANGED <<templateVars, matchVars, displayVars, documentVars,
                   replaceVars, expandVars, printerVars, laterVars, pc>>

\* list(manager.lookup_types(typename, filename))
LookupTypes ==
    /\ calls < MaxCalls
    /\ \E typename \in LookupTypenames, filename \in LookupFilenames :
          Manager("lookup_types", <<>>, typename, filename,
                  lookup_types(NatvisManager(loaded_types, loaded_files),
                               typename, filename))
    /\ UNCHANGED <<templateVars, matchVars, displayVars, documentVars,
                   replaceVars, expandVars, printerVars, laterVars, pc>>

\* manager.lookup_type(typename, filename)
LookupType ==
    /\ calls < MaxCalls
    /\ \E typename \in LookupTypenames, filename \in LookupFilenames :
          Manager("lookup_type", <<>>, typename, filename,
                  lookup_type(NatvisManager(loaded_types, loaded_files),
                              typename, filename))
    /\ UNCHANGED <<templateVars, matchVars, displayVars, documentVars,
                   replaceVars, expandVars, printerVars, laterVars, pc>>

\* NatvisManager(): nothing loaded
InitManager ==
    /\ loaded_types = <<>>
    /\ loaded_files = {}
    /\ scans = 0
    /\ calls = 0
    /\ prev_call = NotRun
    /\ last_call = NotRun
    /\ pc = "start"
    /\ NoTemplates /\ NoMatch /\ NoDisplay /\ NoDocument
    /\ NoReplace /\ NoExpand /\ NoPrinter /\ NoLater

NextManager == LoadNatvisFile \/ LookupTypes \/ LookupType

SpecManager == InitManager /\ [][NextManager]_vars

\* instance.replace_vars(expression, **kwargs)
ReplaceVars ==
    /\ pc = "start"
    /\ rv_result' = replace_vars(NatvisTypeInstance(NoType, rv_template_args),
                                 ExpressionText(rv_expression), rv_kwargs)
    /\ pc' = "replaced"
    /\ UNCHANGED <<rv_expression, rv_template_args, rv_kwargs, templateVars, matchVars,
                   displayVars, documentVars, managerVars, expandVars, printerVars, laterVars>>

InitReplace ==
    /\ rv_expression \in SeqsUpTo(Pieces, MaxPieces)
    /\ rv_template_args \in TemplateArgs
    /\ rv_kwargs \in Kwargs
    /\ rv_result = NotRun
    /\ pc = "start"
    /\ NoTemplates /\ NoMatch /\ NoDisplay /\ NoDocument
    /\ NoManager /\ NoExpand /\ NoPrinter /\ NoLater

NextReplace == ReplaceVars

SpecReplace == InitReplace /\ [][NextReplace]_vars

\* NatvisType(element) for a Type element with an Expand child
ParseExpand ==
    /\ pc = "start"
    /\ ex_result' = NatvisType(ExpandType(ex_children))
    /\ pc' = "parsed"
    /\ UNCHANGED <<ex_children, templateVars, matchVars, displayVars, documentVars,
                   managerVars, replaceVars, printerVars, laterVars>>

InitExpand ==
    /\ ex_children \in SeqsUpTo(ExpandChildren, MaxChildren)
    /\ ex_result = NotRun
    /\ pc = "start"
    /\ NoTemplates /\ NoMatch /\ NoDisplay /\ NoDocument
    /\ NoManager /\ NoReplace /\ NoPrinter /\ NoLater

NextExpand == ParseExpand

SpecExpand == InitExpand /\ [][NextExpand]_vars

\* NatvisPrinter(parent, instance, val).to_string()
PrinterToString ==
    /\ pc = "start"
    /\ pr_result' = to_string(NatvisPrinter(PrintedInstance(pr_parsers), pr_evaluator))
    /\ pc' = "shown"
    /\ UNCHANGED <<pr_parsers, pr_evaluator, templateVars, matchVars, displayVars,
                   documentVars, managerVars, replaceVars, expandVars, laterVars>>

InitPrinter ==
    /\ pr_parsers \in SeqsUpTo(Alternatives, MaxAlternatives)
    /\ pr_evaluator \in [PrinterExpressions -> Happenings]
    /\ pr_result = NotRun
    /\ pc = "start"
    /\ NoTemplates /\ NoMatch /\ NoDisplay /\ NoDocument
    /\ NoManager /\ NoReplace /\ NoExpand /\ NoLater

NextPrinter == PrinterToString

SpecPrinter == InitPrinter /\ [][NextPrinter]_vars

\* list(NatvisPrinter(parent, instance, val)._expand_index_list_items(item))
ExpandIndexListItemsChildren ==
    /\ pc = "start"
    /\ it_item.class = "ExpandIndexListItems"
    /\ it_result' = expand_index_list_items(NatvisPrinter(PrintedInstance(<<>>), it_evaluator),
                                            it_item)
    /\ pc' = "listed"
    /\ UNCHANGED <<it_item, it_evaluator, templateVars, matchVars, displayVars, documentVars,
                   managerVars, replaceVars, expandVars, printerVars, evaluatorVars,
                   graphVars, formatVars, stringVars>>

\* list(NatvisPrinter(parent, instance, val)._expand_array_items(item))
ExpandArrayItemsChildren ==
    /\ pc = "start"
    /\ it_item.class = "ExpandArrayItems"
    /\ it_result' = expand_array_items(NatvisPrinter(PrintedInstance(<<>>), it_evaluator),
                                       it_item)
    /\ pc' = "listed"
    /\ UNCHANGED <<it_item, it_evaluator, templateVars, matchVars, displayVars, documentVars,
                   managerVars, replaceVars, expandVars, printerVars, evaluatorVars,
                   graphVars, formatVars, stringVars>>

InitItems ==
    /\ it_item \in Directives
    /\ it_evaluator \in ItemEvaluators
    /\ it_result = NotRun
    /\ pc = "start"
    /\ NoTemplates /\ NoMatch /\ NoDisplay /\ NoDocument
    /\ NoManager /\ NoReplace /\ NoExpand /\ NoPrinter
    /\ NoEvaluator /\ NoGraph /\ NoFormat /\ NoString

NextItems == ExpandIndexListItemsChildren \/ ExpandArrayItemsChildren

SpecItems == InitItems /\ [][NextItems]_vars

\* GdbTypeFormatter().get_type_string(tg_type)
GetTypeString ==
    /\ pc = "start"
    /\ tg_result' \in get_type_string(tg_program, tg_type)
    /\ pc' = "formatted"
    /\ UNCHANGED <<tg_program, tg_type, templateVars, matchVars, displayVars, documentVars,
                   managerVars, replaceVars, expandVars, printerVars, itemsVars,
                   evaluatorVars, formatVars, stringVars>>

InitGraph ==
    /\ tg_program \in Programs
    /\ tg_type \in FormattedTypes
    /\ tg_result = NotRun
    /\ pc = "start"
    /\ NoTemplates /\ NoMatch /\ NoDisplay /\ NoDocument
    /\ NoManager /\ NoReplace /\ NoExpand /\ NoPrinter
    /\ NoItems /\ NoEvaluator /\ NoFormat /\ NoString

NextGraph == GetTypeString

SpecGraph == InitGraph /\ [][NextGraph]_vars

\* ClangExpressionEvaluator(this_val, content).get_value(ev_cursor)
EvaluatorGetValue ==
    /\ pc = "start"
    /\ ev_result' = evaluator_get_value(ev_cursor)
    /\ pc' = "evaluated"
    /\ UNCHANGED <<ev_cursor, templateVars, matchVars, displayVars, documentVars,
                   managerVars, replaceVars, expandVars, printerVars, itemsVars,
                   graphVars, formatVars, stringVars>>

InitEvaluator ==
    /\ ev_cursor \in Expressions
    /\ ev_result = NotRun
    /\ pc = "start"
    /\ NoTemplates /\ NoMatch /\ NoDisplay /\ NoDocument
    /\ NoManager /\ NoReplace /\ NoExpand /\ NoPrinter
    /\ NoItems /\ NoGraph /\ NoFormat /\ NoString

NextEvaluator == EvaluatorGetValue

SpecEvaluator == InitEvaluator /\ [][NextEvaluator]_vars

\* list(parse_format_specifier(fs_spec))
ParseFormatSpecifier ==
    /\ pc = "start"
    /\ fs_result' = Built(parse_format_specifier(fs_spec))
    /\ pc' = "parsed"
    /\ UNCHANGED <<fs_spec, templateVars, matchVars, displayVars, documentVars,
                   managerVars, replaceVars, expandVars, printerVars, itemsVars,
                   evaluatorVars, graphVars, stringVars>>

InitFormat ==
    /\ fs_spec \in SpecStrings
    /\ fs_result = NotRun
    /\ pc = "start"
    /\ NoTemplates /\ NoMatch /\ NoDisplay /\ NoDocument
    /\ NoManager /\ NoReplace /\ NoExpand /\ NoPrinter
    /\ NoItems /\ NoEvaluator /\ NoGraph /\ NoString

NextFormat == ParseFormatSpecifier

SpecFormat == InitFormat /\ [][NextFormat]_vars

\* DisplayStringParser(dr_string)
ParseRawDisplayString ==
    /\ pc = "start"
    /\ dr_parser' = Built(DisplayStringParser(dr_string))
    /\ pc' = "parsed"
    /\ UNCHANGED <<dr_string, templateVars, matchVars, displayVars, documentVars,
                   managerVars, replaceVars, expandVars, printerVars, itemsVars,
                   evaluatorVars, graphVars, formatVars>>

InitString ==
    /\ dr_string \in DisplayStrings
    /\ dr_parser = NotRun
    /\ pc = "start"
    /\ NoTemplates /\ NoMatch /\ NoDisplay /\ NoDocument
    /\ NoManager /\ NoReplace /\ NoExpand /\ NoPrinter
    /\ NoItems /\ NoEvaluator /\ NoGraph /\ NoFormat

NextString == ParseRawDisplayString

SpecString == InitString /\ [][NextString]_vars

(***************************************************************************)
(* Properties of the template type parser                                  *)
(***************************************************************************)
\* The number of characters of s[1..j] that are c
RECURSIVE Count(_, _, _)
Count(s, j, c) ==
    IF j = 0 THEN 0 ELSE Count(s, j - 1, c) + (IF s[j] = c THEN 1 ELSE 0)

\* The nesting depth after s[1..j]: the '<' less the '>'
Depth(s, j) == Count(s, j, "<") - Count(s, j, ">")

\* The first character after s[i] that is not whitespace, "" if there is none
RECURSIVE NextAfter(_, _)
NextAfter(s, i) ==
    IF i >= Len(s) THEN ""
    ELSE IF isspace(s[i + 1]) THEN NextAfter(s, i + 1)
    ELSE s[i + 1]

\* 'Name<>': a '<' whose argument list is empty
HasEmptyArgumentList(s) ==
    \E i \in 1..Len(s) : s[i] = "<" /\ NextAfter(s, i) = ">"

\* 'Name<T,>' or 'Name<T,,>': a ',' with no argument after it
HasEmptyArgumentAfterComma(s) ==
    \E i \in 1..Len(s) : s[i] = "," /\ NextAfter(s, i) \in {",", ">"}

\* 'Name>': a '>' that closes no '<'
HasUnmatchedClose(s) ==
    \E i \in 1..Len(s) : s[i] = ">" /\ Depth(s, i) < 0

\* A complete type was read and input remains after it
HasTrailingInput(s) ==
    LET r == template_type_parse_runner(s, 0)
    IN  r.kind = "ok" /\ r.end < Len(s)

\* 'Name<', 'Name<T', 'A<B<C>': a '<' that no later '>' closes
HasUnclosedOpen(s) ==
    \E i \in 1..Len(s) :
        s[i] = "<" /\ \A j \in i..Len(s) : Depth(s, j) - Depth(s, i - 1) > 0

\* C3: parse_template_type raises TemplateException for every input with an
\* empty template-argument list, an empty argument after a comma, a '>' with
\* no matching '<', or trailing input after a complete type.
C3_MalformedRaisesTemplateException ==
    (pc # "start"
     /\ (\/ HasEmptyArgumentList(tt_input)
         \/ HasEmptyArgumentAfterComma(tt_input)
         \/ HasUnmatchedClose(tt_input)
         \/ HasTrailingInput(tt_input)))
    => tt_result.kind = "TemplateException"

\* 'a< >a': an empty argument list, then input the parser never reaches
C3_Witness ==
    /\ pc = "parsed"
    /\ tt_input = <<"a", "<", " ", ">", "a">>
    /\ tt_result.kind = "TemplateException"

\* C4: parse_template_type raises TemplateException, and nothing else, for
\* every input in which some '<' is never closed by a '>'.
C4_UnclosedRaisesTemplateException ==
    (pc # "start" /\ HasUnclosedOpen(tt_input))
    => tt_result.kind = "TemplateException"

\* The position of the first c in s, 0 if there is none
RECURSIVE IndexOf(_, _, _)
IndexOf(s, c, i) ==
    IF i > Len(s) THEN 0 ELSE IF s[i] = c THEN i ELSE IndexOf(s, c, i + 1)

\* The pieces of s between its commas of nesting depth 0, from s[i] on, cur
\* being the piece read so far
RECURSIVE SplitArguments(_, _, _)
SplitArguments(s, i, cur) ==
    IF i > Len(s) THEN <<cur>>
    ELSE IF s[i] = "," /\ Depth(s, i) = 0
    THEN <<cur>> \o SplitArguments(s, i + 1, <<>>)
    ELSE SplitArguments(s, i + 1, Append(cur, s[i]))

Malformed == [name |-> <<"?">>, args |-> <<"?">>]

\* The tree a type string denotes, read off its brackets: the name is the text
\* before the first '<', the arguments are the texts between the commas of
\* that '<' and its '>', without the whitespace before them, read the same
\* way.  Malformed if s is not Name or Name<Type, ..., Type> with names that
\* are not blank.
RECURSIVE TypeTree(_)
TypeTree(s) ==
    LET open == IndexOf(s, "<", 1)
    IN  IF open = 0
        THEN IF IndexOf(s, ">", 1) # 0 \/ IndexOf(s, ",", 1) # 0 \/ strip(s) = <<>>
             THEN Malformed
             ELSE TemplateType(rstrip(s), <<>>)
        ELSE LET name == SubSeq(s, 1, open - 1)
                 list == SubSeq(s, open + 1, Len(s) - 1)
                 pieces == SplitArguments(list, 1, <<>>)
                 args == [i \in 1..Len(pieces) |-> TypeTree(rstrip(lstrip(pieces[i])))]
             IN  IF \/ strip(name) = <<>>
                    \/ IndexOf(name, ">", 1) # 0 \/ IndexOf(name, ",", 1) # 0
                    \/ s[Len(s)] # ">"
                    \/ \E j \in open..(Len(s) - 1) : Depth(s, j) <= 0
                    \/ \E i \in 1..Len(args) : args[i] = Malformed
                 THEN Malformed
                 ELSE TemplateType(name, args)

WellFormed(s) == TypeTree(s) # Malformed

RECURSIVE PreviousBefore(_, _)
PreviousBefore(s, i) ==
    IF i <= 1 THEN ""
    ELSE IF isspace(s[i - 1]) THEN PreviousBefore(s, i - 1)
    ELSE s[i - 1]

\* s with its whitespace around '<', '>' and ',' normalised: none next to any
\* of them, then one blank after each ','.  The whitespace that ends s counts
\* as whitespace before a delimiter.
RECURSIVE Normalize(_, _)
Normalize(s, i) ==
    IF i > Len(s) THEN <<>>
    ELSE IF isspace(s[i]) /\ (PreviousBefore(s, i) \in TEMPLATE_LIST_REGEX
                              \/ NextAfter(s, i) \in TEMPLATE_LIST_REGEX \cup {""})
    THEN Normalize(s, i + 1)
    ELSE IF s[i] = "," THEN <<",", " ">> \o Normalize(s, i + 1)
    ELSE <<s[i]>> \o Normalize(s, i + 1)

\* C6: for every valid template-type string s without wildcards,
\* str(parse_template_type(s)) is s with the whitespace around '<', '>' and
\* ',' normalised.
C6_StrOfParsedIsNormalized ==
    (pc = "rendered" /\ WellFormed(tt_input) /\ IndexOf(tt_input, "*", 1) = 0)
    => tt_str = Normalize(tt_input, 1)

(***************************************************************************)
(* Properties of TemplateType.matches                                      *)
(***************************************************************************)
\* C1: matches on a wildcard pattern node returns true for every instance
\* node and appends the instance node's full rendered name (its name with its
\* template argument list) to the captured-argument list.
C1_WildcardAppendsRenderedName ==
    (pc = "matched" /\ is_wildcard(m_self))
    => /\ m_result.ret
       /\ ~m_args.is_none
          => m_result.matched_args = Some(Append(m_args.value, str(m_other)))

\* C2: for a pattern node that is not a wildcard, matches returns true if and
\* only if the names are equal, the argument lists have the same length and
\* every pattern argument matches the instance argument at its position.
C2_MatchesIffNamesAndArgumentsMatch ==
    (pc = "matched" /\ ~is_wildcard(m_self))
    => (m_result.ret <=>
            /\ m_self.name = m_other.name
            /\ Len(m_self.args) = Len(m_other.args)
            /\ \A i \in 1..Len(m_self.args) :
                   matches(m_self.args[i], m_other.args[i], None).ret)

\* a<a> has been matched against a<a, b>, whose first argument matches
C2_Witness ==
    /\ pc = "matched"
    /\ m_self = TemplateType(<<"a">>, <<TemplateType(<<"a">>, <<>>)>>)
    /\ m_other = TemplateType(<<"a">>, <<TemplateType(<<"a">>, <<>>),
                                         TemplateType(<<"b">>, <<>>)>>)
    /\ ~m_result.ret

(***************************************************************************)
(* Properties of DisplayStringParser                                       *)
(***************************************************************************)
\* The placeholders among the pieces, in order
RECURSIVE CodeSegments(_)
CodeSegments(segments) ==
    IF segments = <<>> THEN <<>>
    ELSE IF Head(segments).kind = "code"
    THEN <<Head(segments)>> \o CodeSegments(Tail(segments))
    ELSE CodeSegments(Tail(segments))

\* The pieces that are not escaped braces, in order
RECURSIVE WithoutEscapes(_)
WithoutEscapes(segments) ==
    IF segments = <<>> THEN <<>>
    ELSE IF Head(segments).kind = "escape" THEN WithoutEscapes(Tail(segments))
    ELSE <<Head(segments)>> \o WithoutEscapes(Tail(segments))

\* The text between the braces of a placeholder
Inner(segment) == SubSeq(segment.text, 2, Len(segment.text) - 1)

\* The template the pieces stand for: the k-th placeholder becomes {k}, all
\* other text stays
ExpectedTemplate(segments) ==
    Concat([i \in 1..Len(segments) |->
               IF segments[i].kind = "code"
               THEN <<"{">> \o IntToStr(Len(CodeSegments(SubSeq(segments, 1, i - 1))))
                    \o <<"}">>
               ELSE segments[i].text])

\* The nesting depth in parentheses and brackets after s[1..j]
Nesting(s, j) ==
    Count(s, j, "(") + Count(s, j, "[") - Count(s, j, ")") - Count(s, j, "]")

\* The position of the last comma of s[1..j] that is nested in no parentheses
\* or brackets, 0 if there is none
RECURSIVE LastTopLevelComma(_, _)
LastTopLevelComma(s, j) ==
    IF j = 0 THEN 0
    ELSE IF s[j] = "," /\ Nesting(s, j) = 0 THEN j
    ELSE LastTopLevelComma(s, j - 1)

\* The expression of a placeholder {expr} or {expr,format}
Expression(text) ==
    LET comma == LastTopLevelComma(text, Len(text))
    IN  IF comma = 0 THEN text ELSE SubSeq(text, 1, comma - 1)

\* C7: DisplayStringParser replaces the k-th '{expr}' placeholder by '{k}' in
\* template_string and stores expr as code_parts[k].base_expression, copying
\* all other text unchanged and in order; a placeholder with no comma has
\* formatspecs None.
C7_PlaceholdersNumberedAndStored ==
    pc = "parsed"
    => LET code == CodeSegments(ds_segments)
       IN  /\ ds_parser.template_string = ExpectedTemplate(ds_segments)
           /\ Len(ds_parser.code_parts) = Len(code)
           /\ \A k \in 1..Len(code) :
                  /\ ds_parser.code_parts[k].base_expression = Expression(Inner(code[k]))
                  /\ IndexOf(Inner(code[k]), ",", 1) = 0
                     => ds_parser.code_parts[k].formatspecs = None

\* C8: a '{{' or '}}' outside a placeholder is emitted as an escaped brace in
\* template_string, creates no code part and consumes no placeholder index:
\* the placeholders keep the numbering and the code parts they have without
\* the escapes.
C8_EscapesConsumeNoPlaceholder ==
    (pc = "parsed" /\ \E i \in 1..Len(ds_segments) : ds_segments[i].kind = "escape")
    => /\ ds_parser.template_string = ExpectedTemplate(ds_segments)
       /\ Len(ds_parser.code_parts) = Len(CodeSegments(ds_segments))
       /\ ds_parser.code_parts
              = DisplayStringParser(DisplayText(WithoutEscapes(ds_segments))).code_parts

\* '{{{x}}}' has been parsed
C8_Witness ==
    /\ pc = "parsed"
    /\ ds_segments = <<Escape("{"), Code(<<"x">>), Escape("}")>>
    /\ ds_parser.template_string = <<"{", "{", "{", "0", "}", "}", "}">>
    /\ Len(ds_parser.code_parts) = 1

\* C9: the text of a placeholder is split into base expression and format at
\* the last comma that is nested in no parentheses or brackets: '{x,d}' gives
\* 'x' with [DECIMAL_INT], and the comma of '{f(a, b)}' does not split.
C9_SplitAtLastTopLevelComma ==
    pc = "parsed"
    => LET code == CodeSegments(ds_segments)
       IN  \A k \in 1..Len(code) :
               LET text == Inner(code[k])
                   comma == LastTopLevelComma(text, Len(text))
                   part == ds_parser.code_parts[k]
               IN  /\ Len(ds_parser.code_parts) >= k
                   /\ part.base_expression = Expression(text)
                   /\ comma = 0 <=> part.formatspecs = None
                   /\ text = <<"y", ",", "d">>
                      => part.formatspecs = Some(<<"DECIMAL_INT">>)

(***************************************************************************)
(* Properties of NatvisDocument                                            *)
(***************************************************************************)
\* The children of the root that are Type elements, written with or without
\* the natvis 2010 namespace, in document order
RECURSIVE TypeElements(_)
TypeElements(children) ==
    IF children = <<>> THEN <<>>
    ELSE IF Head(children).tag \in {Tag("Type"), QName(NATVIS_NAMESPACE, "Type")}
    THEN <<Head(children)>> \o TypeElements(Tail(children))
    ELSE TypeElements(Tail(children))

\* C10: parsing a rule document whose root has N Type children, with or
\* without the natvis 2010 namespace prefix, yields a NatvisDocument with
\* exactly N rules, in document order.
C10_OneRulePerTypeElement ==
    (pc = "parsed" /\ nv_result.kind = "ok")
    => LET elements == TypeElements(nv_document.children)
           types == nv_result.value.types
       IN  /\ Len(types) = Len(elements)
           /\ \A k \in 1..Len(elements) :
                  types[k].template_type = parse_template_type(elements[k].Name.value).type

\* A document with a prefixed Type, an element that is no Type and a Type
\* without prefix has been parsed to two rules
C10_Witness ==
    /\ pc = "parsed"
    /\ nv_document.children = <<PrefixedType, OtherElement, PlainType>>
    /\ nv_result.kind = "ok"
    /\ Len(nv_result.value.types) = 2

(***************************************************************************)
(* Properties of NatvisManager                                             *)
(***************************************************************************)
\* C11: a call of load_natvis_file with a path that is already in
\* loaded_files leaves loaded_types and loaded_files as they were
C11_LoadOfLoadedPathChangesNothing ==
    (last_call.kind = "load_natvis_file"
        /\ last_call.path \in last_call.before.loaded_files)
    => (loaded_types = last_call.before.loaded_types
        /\ loaded_files = last_call.before.loaded_files)

\* A rule file that holds rules has been loaded a second time
C11_Witness ==
    /\ last_call.kind = "load_natvis_file"
    /\ last_call.path \in last_call.before.loaded_files
    /\ last_call.raised = ""
    /\ isfile(last_call.path)
    /\ loaded_types # <<>>

\* A lookup that ended without raising and found no rule
FoundNothing(call) ==
    /\ call.kind \in {"lookup_types", "lookup_type"}
    /\ call.raised = ""
    /\ IF call.kind = "lookup_types" THEN call.value = <<>> ELSE call.value = None

\* The last two calls are the same lookup with an origin path, and the
\* first of them found nothing
RepeatedNegativeLookup ==
    /\ FoundNothing(prev_call)
    /\ last_call.kind = prev_call.kind
    /\ last_call.typename = prev_call.typename
    /\ last_call.filename = prev_call.filename
    /\ ~last_call.filename.is_none

\* C12: when a lookup for a type name and an origin path has found nothing,
\* the same lookup made again does not look for rule files: the number of
\* scans stays what the first lookup left
C12_SecondLookupDoesNotScan ==
    RepeatedNegativeLookup => scans = last_call.before.scans

\* C13: what lookup_types yields is in load order and holds no rule twice:
\* the matching rules that were loaded before the call, then the matching
\* rules the call loaded, so the positions in loaded_types of the rules
\* yielded increase
C13_YieldsEachRuleOnceInLoadOrder ==
    last_call.kind = "lookup_types"
    => \A i \in 1..(Len(last_call.value) - 1) :
          last_call.value[i].rule < last_call.value[i + 1].rule

\* C14: lookup_types and lookup_type raise nothing, whatever rule files and
\* directories discovery meets
C14_LookupNeverRaises ==
    last_call.kind \in {"lookup_types", "lookup_type"} => last_call.raised = ""

\* A pattern type matches an instance type: the pattern is the wildcard, or
\* the names are equal, the argument counts are equal and each argument of
\* the pattern matches the argument of the instance at its position
RECURSIVE PatternMatches(_, _)
PatternMatches(pattern, instance) ==
    \/ is_wildcard(pattern)
    \/ /\ pattern.name = instance.name
       /\ Len(pattern.args) = Len(instance.args)
       /\ \A i \in 1..Len(pattern.args) :
             PatternMatches(pattern.args[i], instance.args[i])

HasValue(piece) ==
    IF piece.text = <<"i">> THEN <<"i">> \in DOMAIN rv_kwargs
    ELSE \E k \in 1..Len(rv_template_args) : piece.text = <<"T">> \o IntToStr(k)

\* What a piece stands for: its text, the k-th template argument for $Tk, the
\* keyword value for $i
Replaced(piece) ==
    IF ~piece.variable THEN piece.text
    ELSE IF piece.text = <<"i">> THEN rv_kwargs[<<"i">>]
    ELSE rv_template_args[CHOOSE k \in 1..Len(rv_template_args) :
                              piece.text = <<"T">> \o IntToStr(k)]

\* C20: when every variable of the expression has a value, replace_vars
\* raises nothing and returns the expression with $Tk replaced by the k-th
\* template argument, $i by the keyword value and all else unchanged
C20_ReplacesVariables ==
    (pc = "replaced"
        /\ \A k \in 1..Len(rv_expression) :
              rv_expression[k].variable => HasValue(rv_expression[k]))
    => rv_result = Built(Concat([k \in 1..Len(rv_expression) |->
                                    Replaced(rv_expression[k])]))

(***************************************************************************)
(* Properties of the Expand element                                        *)
(***************************************************************************)
\* A child of Expand that gives a directive: an Item, an ArrayItems, an
\* ExpandedItem, or an IndexListItems that has a Size and a ValueNode
GivesDirective(child) ==
    \/ child.tag \in {Tag("Item"), Tag("ArrayItems"), Tag("ExpandedItem")}
    \/ /\ child.tag = Tag("IndexListItems")
       /\ ~find(child, Tag("Size"), 1).is_none
       /\ ~find(child, Tag("ValueNode"), 1).is_none

\* The children that give a directive, in document order
RECURSIVE DirectiveChildren(_)
DirectiveChildren(children) ==
    IF children = <<>> THEN <<>>
    ELSE (IF GivesDirective(Head(children)) THEN <<Head(children)>> ELSE <<>>)
         \o DirectiveChildren(Tail(children))

\* The kind of directive each kind of child gives
DirectiveClass(child) ==
    CASE child.tag = Tag("Item") -> "ExpandItem"
      [] child.tag = Tag("IndexListItems") -> "ExpandIndexListItems"
      [] child.tag = Tag("ArrayItems") -> "ExpandArrayItems"
      [] child.tag = Tag("ExpandedItem") -> "ExpandExpandedItem"

\* C19: expand_items holds one directive for each Item, each IndexListItems
\* with Size and ValueNode, each ArrayItems and each ExpandedItem, in
\* document order
C19_OneDirectivePerExpandChild ==
    (pc = "parsed" /\ ex_result.kind = "ok")
    => /\ ~ex_result.value.expand_items.is_none
       /\ LET items == ex_result.value.expand_items.value
              given == DirectiveChildren(ex_children)
          IN  /\ Len(items) = Len(given)
              /\ \A k \in 1..Len(given) : items[k].class = DirectiveClass(given[k])

(***************************************************************************)
(* Properties of NatvisPrinter.to_string                                   *)
(***************************************************************************)
\* The alternative has no condition, or its condition evaluates to true
ConditionHolds(string) ==
    \/ string.condition.is_none
    \/ /\ pr_evaluator[string.condition.value].happens = "value"
       /\ pr_evaluator[string.condition.value].value.truth = "true"

\* The first of the alternatives from i on whose condition holds, 0 if there
\* is none
RECURSIVE FirstHolding(_)
FirstHolding(i) ==
    IF i > Len(pr_parsers) THEN 0
    ELSE IF ConditionHolds(pr_parsers[i]) THEN i
    ELSE FirstHolding(i + 1)

\* C16: to_string chooses the first alternative, in document order, that
\* has no condition or whose condition evaluates to true, and tries none
\* after it; when there is none it returns "No visualizer available"
C16_FirstHoldingAlternativeIsShown ==
    pc = "shown"
    => /\ pr_result.chosen = FirstHolding(1)
       /\ pr_result.chosen # 0 => pr_result.tried = pr_result.chosen
       /\ pr_result.chosen = 0
          => pr_result.kind = "ok"
             /\ pr_result.value = <<"N", "o", " ", "v", "i", "s", "u", "a", "l", "i", "z",
                                    "e", "r", " ", "a", "v", "a", "i", "l", "a", "b", "l", "e">>

\* The condition of the alternative fails to evaluate: the evaluator
\* returns no value, or a memory read fails
ConditionFails(string) ==
    /\ ~string.condition.is_none
    /\ pr_evaluator[string.condition.value].happens
          \in {"no statement", "Exception", "MemoryError"}

\* C17: an alternative whose condition fails to evaluate is not chosen
C17_FailedConditionIsNotChosen ==
    (pc = "shown" /\ pr_result.chosen # 0)
    => ~ConditionFails(pr_parsers[pr_result.chosen])

\* What is shown for an expression: the text of its value, or the
\* expression in braces when its evaluation failed
ShownFor(expression) ==
    IF pr_evaluator[expression].happens = "value"
    THEN pr_evaluator[expression].value.text
    ELSE <<"{">> \o expression \o <<"}">>

\* C18: to_string raises nothing when the evaluation of an expression
\* fails, and the alternative it chose is shown with each expression that
\* failed as its text in braces and the others as their values
C18_FailedExpressionIsShownInBraces ==
    pc = "shown"
    => /\ pr_result.kind = "ok"
       /\ pr_result.chosen # 0
          => LET parser == pr_parsers[pr_result.chosen].parser
             IN  pr_result.value
                   = str_format(parser.template_string, 0, 0,
                                [k \in 1..Len(parser.code_parts) |->
                                    ShownFor(parser.code_parts[k].base_expression)],
                                <<>>).value

(***************************************************************************)
(* Properties of the children a NatvisPrinter lists for a directive         *)
(***************************************************************************)
\* The guard of the directive is absent or evaluates to a value that is true
GuardHolds ==
    \/ it_item.condition.is_none
    \/ /\ it_evaluator[<<"c">>].happens = "value"
       /\ it_evaluator[<<"c">>].value.truth = "true"

\* The guard evaluates to a value that is false
GuardFalse ==
    /\ ~it_item.condition.is_none
    /\ it_evaluator[<<"c">>].happens = "value"
    /\ it_evaluator[<<"c">>].value.truth = "false"

\* The size expression evaluates to an integer
SizeIsInteger ==
    /\ it_evaluator[<<"n">>].happens = "value"
    /\ IsNumeral(it_evaluator[<<"n">>].value.text)

SizeValue == StrToInt(it_evaluator[<<"n">>].value.text)

\* C21: when the guard of an IndexListItems is absent or true and the size
\* evaluates to the integer n (and each x[i] evaluates to a value), the
\* children are '[0]'..'[n-1]' in order, the i-th the value of x[i]; when the
\* guard is false or the size is not an integer, also when it fails to
\* evaluate, there are no children and nothing is raised.
C21_IndexListItemsChildren ==
    (pc = "listed" /\ it_item.class = "ExpandIndexListItems") =>
        /\ (/\ GuardHolds /\ SizeIsInteger
            /\ \A i \in 0..SizeValue - 1 : it_evaluator[ValueExpression(i)].happens = "value")
           => /\ it_result.kind = "ok"
              /\ Len(it_result.value) = SizeValue
              /\ \A i \in 0..SizeValue - 1 :
                    it_result.value[i + 1]
                        = <<ChildName(i), it_evaluator[ValueExpression(i)].value>>
        /\ (GuardFalse \/ ~SizeIsInteger)
           => it_result = Yielded("ok", <<>>)

\* C22: when the guard of an ArrayItems is absent or true, the size
\* evaluates to the integer n and the pointer expression to the pointer p,
\* the children are '[0]'..'[n-1]', the i-th the dereference of p advanced
\* by i elements; when the guard is false there are no children.
C22_ArrayItemsChildren ==
    (pc = "listed" /\ it_item.class = "ExpandArrayItems") =>
        /\ (/\ GuardHolds /\ SizeIsInteger
            /\ it_evaluator[<<"p">>].happens = "value"
            /\ IsPointer(it_evaluator[<<"p">>].value))
           => /\ it_result.kind = "ok"
              /\ Len(it_result.value) = SizeValue
              /\ \A i \in 0..SizeValue - 1 :
                    it_result.value[i + 1]
                        = <<ChildName(i),
                            dereference(pointer_add(it_evaluator[<<"p">>].value, i))>>
        /\ GuardFalse => it_result = Yielded("ok", <<>>)

(***************************************************************************)
(* Properties of the type graph                                            *)
(***************************************************************************)
\* In the graph get_type_string built, the type a references the type b: a
\* was added to b.referenced_types
References(a, b) == <<b, a>> \in tg_result.references

CollectedTypes == { tg_result.type_list[k] : k \in 1..Len(tg_result.type_list) }

\* a references b, directly or through at most n - 1 other types
RECURSIVE ReferencesWithin(_, _, _)
ReferencesWithin(a, b, n) ==
    \/ References(a, b)
    \/ n > 1 /\ \E c \in CollectedTypes : References(a, c) /\ ReferencesWithin(c, b, n - 1)

AcyclicGraph == \A t \in CollectedTypes : ~ReferencesWithin(t, t, Cardinality(CollectedTypes))

\* The places of the declarations of a kind of the type t
Places(declares, t) ==
    { k \in 1..Len(tg_result.value) :
        tg_result.value[k].declares = declares /\ tg_result.value[k].type = t }

\* C23: when the reference graph of the collected types is acyclic,
\* get_type_string passes the assertion after sorting, declares every
\* collected type exactly once forward and once in full, puts all forward
\* declarations before all full ones, and puts the full declaration of a
\* type that references b after the full declaration of b.
C23_DeclarationsAreSorted ==
    (pc = "formatted" /\ AcyclicGraph) =>
        /\ tg_result.kind = "ok"
        /\ Len(tg_result.value) = 2 * Cardinality(CollectedTypes)
        /\ \A t \in CollectedTypes :
              /\ Cardinality(Places("forward", t)) = 1
              /\ Cardinality(Places("full", t)) = 1
              /\ \A u \in CollectedTypes :
                    \A i \in Places("forward", t), j \in Places("full", u) : i < j
        /\ \A a \in CollectedTypes, b \in CollectedTypes :
              References(a, b) =>
                  \A i \in Places("full", b), j \in Places("full", a) : i < j

\* get_type_string sorted three types of which one references the others
C23_Witness ==
    /\ pc = "formatted"
    /\ AcyclicGraph
    /\ tg_result.kind = "ok"
    /\ Cardinality(CollectedTypes) = 3
    /\ \E a \in CollectedTypes :
          Cardinality({ b \in CollectedTypes : References(a, b) }) = 2

\* C30: only a struct held by value, directly or as the element of an
\* array, gives a reference in the type graph; fields that are pointers or
\* references, arrays of pointers among them, only add the type they point
\* to, so a program whose structs refer to themselves or to each other only
\* through pointers is sorted without failing the assertion.
C30_OnlyHeldTypesAreReferenced ==
    pc = "formatted" =>
        /\ \A a \in CollectedTypes, b \in CollectedTypes :
              References(a, b) => HoldsByValue(tg_program, a.tag.value, b.tag.value)
        /\ tg_result.kind = "ok"

(***************************************************************************)
(* Properties of wildcard nodes                                            *)
(***************************************************************************)
\* A node of the type is a wildcard that has arguments
RECURSIVE HasWildcardWithArguments(_)
HasWildcardWithArguments(type) ==
    \/ is_wildcard(type) /\ type.args # <<>>
    \/ \E k \in 1..Len(type.args) : HasWildcardWithArguments(type.args[k])

\* C24: in a TemplateType that parse_template_type returns, every node whose
\* name is exactly "*" has an empty argument list.
C24_WildcardHasNoArguments ==
    (pc # "start" /\ tt_result.kind = "ok") => ~HasWildcardWithArguments(tt_result.type)

(***************************************************************************)
(* Properties of the expression evaluator                                  *)
(***************************************************************************)
\* The number an expression of integer literals stands for in C, for the
\* operators - and the parentheses the expressions are written with
RECURSIVE Number(_)
Number(cursor) ==
    CASE cursor.kind = "INTEGER_LITERAL" -> StrToInt(cursor.text)
      [] cursor.kind = "PAREN_EXPR" -> Number(cursor.children[1])
      [] OTHER -> Number(cursor.children[1]) - Number(cursor.children[2])

\* The expression holds whole numbers only: integer literals, - and ( )
RECURSIVE IsWhole(_)
IsWhole(cursor) ==
    \/ cursor.kind = "INTEGER_LITERAL"
    \/ cursor.kind = "PAREN_EXPR" /\ IsWhole(cursor.children[1])
    \/ /\ cursor.kind = "BINARY_OPERATOR" /\ cursor.text = <<"-">>
       /\ IsWhole(cursor.children[1]) /\ IsWhole(cursor.children[2])

\* The operands of the expression are whole numbers and its operator is op
WholeOperation(op) ==
    /\ ev_cursor.kind = "BINARY_OPERATOR" /\ ev_cursor.text = op
    /\ IsWhole(ev_cursor.children[1]) /\ IsWhole(ev_cursor.children[2])

LeftNumber == Number(ev_cursor.children[1])

RightNumber == Number(ev_cursor.children[2])

Abs(n) == IF n < 0 THEN -n ELSE n

\* The quotient of C: rounded toward zero
Truncated(a, b) ==
    IF (a < 0) = (b < 0) THEN Abs(a) \div Abs(b) ELSE -(Abs(a) \div Abs(b))

\* C25: '/' between two whole numbers gives the quotient rounded toward
\* zero, also for negative operands: (0-7)/2 is -3.
C25_DivisionTruncatesTowardZero ==
    (pc = "evaluated" /\ WholeOperation(<<"/">>) /\ RightNumber # 0) =>
        ev_result = Built(PyInt(Truncated(LeftNumber, RightNumber)))

\* C26: for integers a and b >= 0, a << b is a shifted left by b bits and
\* a >> b is a shifted right by b bits, floor(a / 2^b) for a >= 0.
C26_ShiftsLeftAndRight ==
    pc = "evaluated" =>
        /\ (WholeOperation(<<"<", "<">>) /\ RightNumber >= 0)
           => ev_result = Built(PyInt(LeftNumber * power_of_two(RightNumber)))
        /\ (WholeOperation(<<">", ">">>) /\ RightNumber >= 0 /\ LeftNumber >= 0)
           => ev_result = Built(PyInt(LeftNumber \div power_of_two(RightNumber)))

(***************************************************************************)
(* Properties of parse_format_specifier                                    *)
(***************************************************************************)
\* The aliases that are a prefix of the text from position pos on, each with
\* the specifier that owns it
AliasesAt(spec, pos) ==
    { a \in UNION { { [owner |-> FormatSpecifiers[f].name, alias |-> FormatSpecifiers[f].value[n]] :
                        n \in 1..Len(FormatSpecifiers[f].value) } :
                    f \in 1..Len(FormatSpecifiers) } :
        /\ pos + Len(a.alias) <= Len(spec)
        /\ \A k \in 1..Len(a.alias) : CharAt(spec, pos + k - 1) = a.alias[k] }

Longest(aliases) == CHOOSE a \in aliases : \A b \in aliases : Len(b.alias) <= Len(a.alias)

\* The specifiers emitted from position pos on when the longest alias is
\* taken at each position and one character is skipped where there is none
RECURSIVE LongestAliases(_, _)
LongestAliases(spec, pos) ==
    IF pos >= Len(spec) THEN <<>>
    ELSE IF AliasesAt(spec, pos) = {} THEN LongestAliases(spec, pos + 1)
    ELSE <<Longest(AliasesAt(spec, pos)).owner>>
         \o LongestAliases(spec, pos + Len(Longest(AliasesAt(spec, pos)).alias))

\* C27: parse_format_specifier emits, at each position, the specifier of the
\* longest alias that is a prefix of the remaining text and goes on behind
\* it, skips one character where no alias matches, and ends without raising.
C27_LongestAliasIsEmitted ==
    pc = "parsed" => fs_result = Built(LongestAliases(fs_spec, 0))

\* 'zsub' was parsed: z is skipped, and of s, su and sub the longest is taken
C27_Witness ==
    /\ pc = "parsed"
    /\ fs_spec = <<"z", "s", "u", "b">>
    /\ fs_result = Built(<<"WIDE_STRING_NO_QUOTES">>)

(***************************************************************************)
(* Properties of loads that raise                                          *)
(***************************************************************************)
\* The rules of the list
RulesIn(types) == { types[k] : k \in 1..Len(types) }

\* C28: every path in loaded_files has had all rules of its document
\* appended to loaded_types, and a load_natvis_file that raises leaves
\* loaded_files and loaded_types as they were, so that the path is tried
\* again by a later load.
C28_LoadedFilesHaveTheirRules ==
    /\ \A path \in loaded_files :
          /\ parse_file(path).kind = "ok"
          /\ RulesIn(parse_file(path).value.types) \subseteq RulesIn(loaded_types)
    /\ (last_call # NotRun /\ last_call.kind = "load_natvis_file" /\ last_call.raised # "")
       => /\ loaded_files = last_call.before.loaded_files
          /\ loaded_types = last_call.before.loaded_types

(***************************************************************************)
(* Properties of the template string of any display string                 *)
(***************************************************************************)
\* The braces of the template from position i on: the texts between a
\* single '{' and the next '}', in order, when every other brace is doubled;
\* wellformed is FALSE when a single brace stands alone
RECURSIVE Placeholders(_, _, _)
Placeholders(template, i, found) ==
    IF i >= Len(template) THEN [wellformed |-> TRUE, fields |-> found]
    ELSE IF CharAt(template, i) \notin {"{", "}"} THEN Placeholders(template, i + 1, found)
    ELSE IF i + 1 < Len(template) /\ CharAt(template, i + 1) = CharAt(template, i)
    THEN Placeholders(template, i + 2, found)
    ELSE IF CharAt(template, i) = "}" \/ FindClose(template, i + 1) = -1
    THEN [wellformed |-> FALSE, fields |-> found]
    ELSE Placeholders(template, FindClose(template, i + 1) + 1,
                      Append(found, Slice(template, i + 1, FindClose(template, i + 1))))

\* One value for each code part
ValuesFor(code_parts) == [k \in 1..Len(code_parts) |-> <<"v">>]

\* C29: for every display string, also one with a '{' that is not closed or
\* a single '}', the placeholders of template_string are 0..len(code_parts)-1
\* in order, every other brace is doubled, and template_string.format with
\* one value for each code part does not fail.
C29_TemplateStringFormats ==
    pc = "parsed" =>
        /\ Placeholders(dr_parser.value.template_string, 0, <<>>)
               = [wellformed |-> TRUE,
                  fields |-> [k \in 1..Len(dr_parser.value.code_parts) |-> IntToStr(k - 1)]]
        /\ str_format(dr_parser.value.template_string, 0, 0,
                      ValuesFor(dr_parser.value.code_parts), <<>>).kind = "ok"

====
